---- MODULE Spec2Model ----
(***************************************************************************)
(* A model of the retrieval-augmented generation pipeline of the AI        *)
(* Research Assistant: the Chunker and the Index of                        *)
(* src/src/core/vector_database.py, the Extractor of                       *)
(* src/src/core/document_processor.py and the Orchestrator of              *)
(* src/src/core/research_assistant.py.                                     *)
(*                                                                         *)
(* A Python str is a sequence of one-character strings.  The collaborators *)
(* (embedding model, Qdrant, Groq, the file system) are outside the        *)
(* repository: each is modelled by its contract and by a nondeterministic  *)
(* choice between answering and raising.                                   *)
(***************************************************************************)
EXTENDS Integers, Sequences, FiniteSets, TLC

VARIABLES
    \* ---- VectorDatabase.chunk_text, one call, statement by statement
    text,          \* argument text
    chunk_size,    \* argument chunk_size
    overlap,       \* argument overlap
    words,         \* local words (text.split())
    chunks,        \* local chunks / the returned list
    i,             \* the loop variable of line 99
    pc_chunk,      \* "call" | "loop" | "returned" | "raised"
    iterations,    \* history: loop bodies executed by this call
    \* ---- VectorDatabase: the Qdrant collection and the last results
    collection_exists,  \* the collection self.collection_name exists
    points,        \* the points of the collection, in insertion order
    uuids,         \* document ids issued by uuid.uuid4() at line 150
    call,          \* the last call of a public method: its name and arguments
    ret,           \* what that call returned
    search_result, \* the local search_result of a search_similar call
    added,         \* history: returned document_id -> returned chunks_added
    expected,      \* history: the points inserted by successful adds, less
                   \* those of documents deleted by their returned id or cleared
    invoked,       \* history: the collaborators' methods that the last call
                   \* invoked, in order
    \* ---- ResearchAssistant.process_documents, one call, file by file
    config,        \* self.config: the configured chunk_size and chunk_overlap
    files,         \* argument files
    file_idx,      \* the files the loop of line 70 has dealt with
    results,       \* local results: one status line per file dealt with
    successful_uploads,  \* local successful_uploads
    output,        \* the returned text
    pc_batch,      \* "idle" | "call" | "loop" | "returned"
    stages,        \* history: per file dealt with, the stages it went through
    file_doc,      \* history: per file dealt with, the document id that
                   \* add_document issued for it, 0 for none
    outcomes,      \* history: per file dealt with, what the collaborators did
    \* ---- ResearchAssistant.generate_response
    conversation_history,  \* self.conversation_history
    answer,        \* what the last generate_response call returned
    prompt,        \* the messages of the last language-model request
    asked,         \* history: per call, its query and what the collaborators did
    twin,          \* a second ResearchAssistant on the same store, asked the same
                   \* questions: its conversation_history, its last history
                   \* argument and the messages of its last request
    \* ---- callers that share one VectorDatabase
    callers        \* per caller: the method it called and its argument, where
                   \* it stands in the method, its locals and what it returned

chunkerVars == <<text, chunk_size, overlap, words, chunks, i, pc_chunk, iterations>>

indexVars == <<collection_exists, points, uuids, call, ret, search_result,
               added, expected, invoked>>

batchVars == <<config, files, file_idx, results, successful_uploads, output,
               pc_batch, stages, file_doc, outcomes>>

chatVars == <<conversation_history, answer, prompt, asked, twin>>

callerVars == <<callers>>

vars == <<chunkerVars, indexVars, batchVars, chatVars, callerVars>>

-----------------------------------------------------------------------------
(* Bounds of the model.                                                    *)

MaxTextLen == 8
MaxChunkSize == 3
MaxOverlap == 3
MaxDocuments == 2
MaxLimit == 2

-----------------------------------------------------------------------------
(* Python str and list operations.                                         *)

\* the characters of the texts given to chunk_text: a letter and a blank, so
\* that words differ by their length
Chars == {"a", " "}

\* str.isspace() of one character
IsSpace(c) == c \in {" ", "\n", "\t"}

RECURSIVE LStrip(_)
LStrip(s) ==
    IF s = <<>> THEN <<>>
    ELSE IF IsSpace(Head(s)) THEN LStrip(Tail(s)) ELSE s

RECURSIVE RStrip(_)
RStrip(s) ==
    IF s = <<>> THEN <<>>
    ELSE IF IsSpace(s[Len(s)]) THEN RStrip(SubSeq(s, 1, Len(s) - 1)) ELSE s

\* str.strip()
StripLeftOnly(s) == LStrip(s)

Strip(s) == RStrip(LStrip(s))

\* str.split(): the maximal runs of non-whitespace characters, in order
RECURSIVE SplitFrom(_, _, _)
SplitFrom(s, cur, acc) ==
    IF s = <<>> THEN (IF cur = <<>> THEN acc ELSE Append(acc, cur))
    ELSE IF IsSpace(Head(s))
         THEN SplitFrom(Tail(s), <<>>, IF cur = <<>> THEN acc ELSE Append(acc, cur))
         ELSE SplitFrom(Tail(s), Append(cur, Head(s)), acc)

Split(s) == SplitFrom(s, <<>>, <<>>)

\* ' '.join(ws)
RECURSIVE Join(_)
Join(ws) ==
    IF ws = <<>> THEN <<>>
    ELSE IF Len(ws) = 1 THEN ws[1]
    ELSE ws[1] \o <<" ">> \o Join(Tail(ws))

\* s[lo:hi] for any integers lo and hi (a negative index counts from the end,
\* both ends are clipped to the list)
PySlice(s, lo, hi) ==
    LET n == Len(s)
        Clip(x) == LET y == IF x < 0 THEN x + n ELSE x
                   IN  IF y < 0 THEN 0 ELSE IF y > n THEN n ELSE y
    IN  IF Clip(hi) <= Clip(lo) THEN <<>> ELSE SubSeq(s, Clip(lo) + 1, Clip(hi))

\* all sequences over S of length 0..n
SeqsUpTo(S, n) == UNION {[1..k -> S] : k \in 0..n}

-----------------------------------------------------------------------------
(* VectorDatabase.chunk_text (vector_database.py 79-109).                  *)

\* line 91: if not text.strip()
IsBlank(s) == Strip(s) = <<>>

\* a strict comparison in place of line 95's <=
FitsOneChunkStrict(n, size) == n < size

\* line 95: if len(words) <= chunk_size
FitsOneChunk(n, size) == n <= size

\* a window that advances by its whole size, the overlap forgotten
RangeStepNoOverlap(size, ov) == size

\* line 99: the step of range(0, len(words), chunk_size - overlap)
RangeStep(size, ov) == size - ov

\* line 99: range() raises ValueError for a zero step
RangeRaises(step) == step = 0

\* a hand-written `while i < len(words)` in place of range()
RangeHasNextWhile(k, stop, step) == k < stop

\* line 99: range(0, stop, step) still yields the value k
RangeHasNext(k, stop, step) == IF step > 0 THEN k < stop ELSE k > stop

\* lines 100-101: chunk = ' '.join(words[i:i + chunk_size])
WindowChunk(ws, k, size) == Join(PySlice(ws, k, k + size))

\* lines 102-103: the chunk is appended, stripped, unless it is blank
AppendChunk(acc, chunk) == IF IsBlank(chunk) THEN acc ELSE Append(acc, Strip(chunk))

\* line 106: if i + chunk_size >= len(words): break
BreakHere(k, size, n) == k + size >= n

\* line 91-96 and 99: the call enters the loop
ChunkEnterLoop ==
    /\ pc_chunk = "call"
    /\ ~IsBlank(text)
    /\ ~FitsOneChunk(Len(Split(text)), chunk_size)
    /\ ~RangeRaises(RangeStep(chunk_size, overlap))
    /\ words' = Split(text)
    /\ chunks' = <<>>
    /\ i' = 0
    /\ pc_chunk' = "loop"
    /\ UNCHANGED <<text, chunk_size, overlap, iterations>>

\* lines 91-92: blank text returns []
ChunkReturnEmpty ==
    /\ pc_chunk = "call"
    /\ IsBlank(text)
    /\ chunks' = <<>>
    /\ pc_chunk' = "returned"
    /\ UNCHANGED <<text, chunk_size, overlap, words, i, iterations>>

\* lines 94-96: a text of at most chunk_size words is returned whole
ChunkReturnWhole ==
    /\ pc_chunk = "call"
    /\ ~IsBlank(text)
    /\ FitsOneChunk(Len(Split(text)), chunk_size)
    /\ words' = Split(text)
    /\ chunks' = <<text>>
    /\ pc_chunk' = "returned"
    /\ UNCHANGED <<text, chunk_size, overlap, i, iterations>>

\* line 99: range() rejects the zero step with ValueError
ChunkRaise ==
    /\ pc_chunk = "call"
    /\ ~IsBlank(text)
    /\ ~FitsOneChunk(Len(Split(text)), chunk_size)
    /\ RangeRaises(RangeStep(chunk_size, overlap))
    /\ words' = Split(text)
    /\ pc_chunk' = "raised"
    /\ UNCHANGED <<text, chunk_size, overlap, chunks, i, iterations>>

\* lines 99-107: one pass through the loop body
ChunkIterate ==
    /\ pc_chunk = "loop"
    /\ RangeHasNext(i, Len(words), RangeStep(chunk_size, overlap))
    /\ chunks' = AppendChunk(chunks, WindowChunk(words, i, chunk_size))
    /\ iterations' = iterations + 1
    /\ IF BreakHere(i, chunk_size, Len(words))
       THEN /\ pc_chunk' = "returned"
            /\ i' = i
       ELSE /\ pc_chunk' = "loop"
            /\ i' = i + RangeStep(chunk_size, overlap)
    /\ UNCHANGED <<text, chunk_size, overlap, words>>

\* line 99 and 109: the range is exhausted, return chunks
ChunkExhausted ==
    /\ pc_chunk = "loop"
    /\ ~RangeHasNext(i, Len(words), RangeStep(chunk_size, overlap))
    /\ pc_chunk' = "returned"
    /\ UNCHANGED <<text, chunk_size, overlap, words, chunks, i, iterations>>

\* the same function as one value: [raised, chunks]
RECURSIVE ChunkLoop(_, _, _, _, _)
ChunkLoop(ws, size, step, k, acc) ==
    IF ~RangeHasNext(k, Len(ws), step) THEN acc
    ELSE LET acc2 == AppendChunk(acc, WindowChunk(ws, k, size))
         IN  IF BreakHere(k, size, Len(ws)) THEN acc2
             ELSE ChunkLoop(ws, size, step, k + step, acc2)

chunk_text(t, size, ov) ==
    IF IsBlank(t) THEN [raised |-> FALSE, chunks |-> <<>>]
    ELSE IF FitsOneChunk(Len(Split(t)), size) THEN [raised |-> FALSE, chunks |-> <<t>>]
    ELSE IF RangeRaises(RangeStep(size, ov)) THEN [raised |-> TRUE, chunks |-> <<>>]
    ELSE [raised |-> FALSE, chunks |-> ChunkLoop(Split(t), size, RangeStep(size, ov), 0, <<>>)]

-----------------------------------------------------------------------------
(* VectorDatabase: the Index (vector_database.py 111-373).                 *)

\* no result yet
None == [none |-> TRUE]

\* the collection of a freshly constructed VectorDatabase (lines 57-58, 62-77)
IndexIdle ==
    /\ callers = <<>>
    /\ collection_exists = TRUE
    /\ points = <<>>
    /\ uuids = 0
    /\ call = [op |-> "init"]
    /\ ret = None
    /\ search_result = <<>>
    /\ added = <<>>
    /\ expected = <<>>
    /\ invoked = <<>>

\* The embedding provider: deterministic, one fixed-dimension vector per
\* string.  Here the vector counts the letters a and b of the string.
RECURSIVE CountChar(_, _)
CountChar(s, c) ==
    IF s = <<>> THEN 0
    ELSE (IF Head(s) = c THEN 1 ELSE 0) + CountChar(Tail(s), c)

encode(s) == <<CountChar(s, "a"), CountChar(s, "b")>>

Dot(u, v) == u[1] * v[1] + u[2] * v[2]

\* Distance.COSINE (line 74): the squared cosine of two non-negative vectors
\* scaled to 0..100, which orders pairs as their cosine does
Cosine(u, v) ==
    IF Dot(u, u) = 0 \/ Dot(v, v) = 0 THEN 0
    ELSE (100 * Dot(u, v) * Dot(u, v)) \div (Dot(u, u) * Dot(v, v))

\* dict.get(key, default)
Get(d, key, default) == IF key \in DOMAIN d THEN d[key] ELSE default

\* lines 133-134: the defaults of chunk_size and chunk_overlap
DefaultChunkSize == 500
DefaultChunkOverlap == 50

\* lines 158-167: a dict display, the keys of **extra_metadata written last
MergePayload(base, extra) ==
    [k \in DOMAIN base \cup DOMAIN extra |->
        IF k \in DOMAIN extra THEN extra[k] ELSE base[k]]

\* lines 152-169: the point of chunk number k (0-based) of document doc
MakePoint(cs, k, doc, metadata) ==
    [id      |-> <<doc, k>>,
     vector  |-> encode(cs[k + 1]),
     payload |-> MergePayload(
                    [text          |-> cs[k + 1],
                     chunk_id      |-> k,
                     document_id   |-> doc,
                     document_name |-> Get(metadata, "filename", "unknown"),
                     file_type     |-> Get(metadata, "file_type", "unknown"),
                     upload_time   |-> Get(metadata, "upload_time", "now"),
                     chunk_count   |-> Len(cs)],
                    Get(metadata, "extra_metadata", <<>>))]

MakePoints(cs, doc, metadata) ==
    [k \in 1..Len(cs) |-> MakePoint(cs, k - 1, doc, metadata)]

AddFailure(msg) == [success |-> FALSE, error |-> msg, chunks_added |-> 0]

\* single upserts in the loop of lines 152-169: the points before the one
\* that raises stay stored
UpsertedOneByOne(fresh, upsert_ok) ==
    IF upsert_ok THEN fresh ELSE SubSeq(fresh, 1, Len(fresh) - 1)

\* an upsert that stores the points and raises all the same
UpsertedThenRaise(fresh, upsert_ok) == fresh

\* lines 172-175: one upsert of the whole list, which stores every point or
\* raises and stores none
Upserted(fresh, upsert_ok) == IF upsert_ok THEN fresh ELSE <<>>

\* VectorDatabase.add_document (lines 111-192): what the call returns (ret),
\* the points it stores (stored) and whether line 150 issued a document id.
\* embed_ok and upsert_ok are the collaborators' answers: FALSE is an exception
\* of the embedding model or of Qdrant; upsert also raises when the collection
\* does not exist.
add_result(t, metadata, embed_ok, upsert_ok) ==
    LET chunked == chunk_text(t, Get(metadata, "chunk_size", DefaultChunkSize),
                                 Get(metadata, "chunk_overlap", DefaultChunkOverlap))
        doc     == uuids + 1
        fresh   == MakePoints(chunked.chunks, doc, metadata)
        nothing(msg, used) == [ret |-> AddFailure(msg), stored |-> <<>>,
                               issued |-> FALSE, invoked |-> used]
    IN  IF IsBlank(t) THEN nothing("Empty text provided", <<>>)
        ELSE IF chunked.raised THEN nothing("range() arg 3 must not be zero", <<>>)
        ELSE IF chunked.chunks = <<>> THEN nothing("No chunks generated from text", <<>>)
        ELSE IF ~embed_ok THEN nothing("embedding model error", <<"encode">>)
        ELSE IF ~upsert_ok \/ ~collection_exists THEN
            [ret     |-> AddFailure("vector store error"),
             stored  |-> Upserted(fresh, FALSE),
             issued  |-> TRUE,
             invoked |-> <<"encode", "upsert">>]
        ELSE
            [ret    |-> [success          |-> TRUE,
                         chunks_added     |-> Len(chunked.chunks),
                         document_id      |-> doc,
                         total_characters |-> Len(t)],
             stored |-> Upserted(fresh, TRUE),
             issued |-> TRUE,
             invoked |-> <<"encode", "upsert">>]

\* the call, as it changes the collection
add_document(t, metadata, embed_ok, upsert_ok) ==
    LET r   == add_result(t, metadata, embed_ok, upsert_ok)
        doc == uuids + 1
    IN  /\ ret' = r.ret
        /\ invoked' = r.invoked
        /\ points' = points \o r.stored
        /\ uuids' = IF r.issued THEN doc ELSE uuids
        /\ added' = IF r.ret.success
                    THEN [d \in DOMAIN added \cup {doc} |->
                             IF d = doc THEN r.ret.chunks_added ELSE added[d]]
                    ELSE added
        /\ expected' = IF r.ret.success THEN expected \o r.stored ELSE expected

\* lines 220-232: the equality filter; no Filter for None or an empty dict
MatchesFilter(p, filter_conditions) ==
    \A field \in DOMAIN filter_conditions :
        /\ field \in DOMAIN p.payload
        /\ p.payload[field] = filter_conditions[field]

\* Qdrant's descending order by score; equal scores keep insertion order
RECURSIVE InsertByScore(_, _)
InsertByScore(sorted, h) ==
    IF sorted = <<>> THEN <<h>>
    ELSE IF Head(sorted).score >= h.score
         THEN <<Head(sorted)>> \o InsertByScore(Tail(sorted), h)
         ELSE <<h>> \o sorted

RECURSIVE SortByScore(_)
SortByScore(hs) ==
    IF hs = <<>> THEN <<>>
    ELSE InsertByScore(SortByScore(SubSeq(hs, 1, Len(hs) - 1)), hs[Len(hs)])

Keep(sq, n) == IF n >= Len(sq) THEN sq ELSE SubSeq(sq, 1, n)

\* lines 235-242: client.search(query_vector, limit, query_filter,
\* score_threshold): filter, score, drop what is below the threshold, order
\* by descending score, keep the first limit
ClientSearch(pts, query_vector, limit, query_filter, score_threshold) ==
    LET scored == [k \in 1..Len(pts) |->
                      [id |-> pts[k].id, payload |-> pts[k].payload,
                       score |-> Cosine(query_vector, pts[k].vector)]]
        Passes(h) == /\ MatchesFilter(h, query_filter)
                     /\ h.score >= score_threshold
    IN  Keep(SortByScore(SelectSeq(scored, Passes)), limit)

\* lines 245-255: the returned dicts, in the order of search_result
FormatResults(hits) ==
    [k \in 1..Len(hits) |->
        [text          |-> hits[k].payload.text,
         score         |-> hits[k].score,
         document_name |-> hits[k].payload.document_name,
         document_id   |-> hits[k].payload.document_id,
         chunk_id      |-> hits[k].payload.chunk_id,
         file_type     |-> hits[k].payload.file_type,
         upload_time   |-> hits[k].payload.upload_time]]

\* a call that embeds the query before it looks at it
search_invoked_embed_first(query, embed_ok) ==
    IF ~embed_ok THEN <<"encode">>
    ELSE IF IsBlank(query) THEN <<"encode">>
    ELSE <<"encode", "search">>

\* lines 213-242: the collaborators' methods the call invokes: none for a
\* blank query, client.search only once the query is embedded
search_invoked(query, embed_ok) ==
    IF IsBlank(query) THEN <<>>
    ELSE IF ~embed_ok THEN <<"encode">>
    ELSE <<"encode", "search">>

\* a call that hands Qdrant no score_threshold
search_similar_no_threshold(query, limit, score_threshold, filter_conditions, embed_ok, search_ok) ==
    /\ invoked' = search_invoked(query, embed_ok)
    /\ IF IsBlank(query) \/ ~embed_ok \/ ~search_ok \/ ~collection_exists
       THEN /\ search_result' = <<>>
            /\ ret' = <<>>
       ELSE /\ search_result' = ClientSearch(points, encode(query), limit,
                                             filter_conditions, 0)
            /\ ret' = FormatResults(search_result')

\* lines 213-242: the hits of the call; a blank query and every exception
\* give none
search_hits(query, limit, score_threshold, filter_conditions, embed_ok, search_ok) ==
    IF IsBlank(query) \/ ~embed_ok \/ ~search_ok \/ ~collection_exists
    THEN <<>>
    ELSE ClientSearch(points, encode(query), limit, filter_conditions,
                      score_threshold)

\* VectorDatabase.search_similar (lines 194-262); every exception returns []
search_similar(query, limit, score_threshold, filter_conditions, embed_ok, search_ok) ==
    /\ invoked' = search_invoked(query, embed_ok)
    /\ search_result' = search_hits(query, limit, score_threshold,
                                    filter_conditions, embed_ok, search_ok)
    /\ ret' = FormatResults(search_result')

\* line 277: the limit of the one client.scroll call
ScrollLimit == 1000

\* the distinct values of a sequence
Range(sq) == {sq[k] : k \in 1..Len(sq)}

\* statistics whose except clause lets the store's exception through
get_document_stats_raising(store_ok) ==
    IF ~store_ok \/ ~collection_exists
    THEN [raised |-> TRUE, error |-> <<"vector", "store", "error">>]
    ELSE LET scrolled == Keep(points, ScrollLimit)
             ids      == {scrolled[k].payload.document_id : k \in 1..Len(scrolled)}
             Of(d)    == SelectSeq(scrolled, LAMBDA p : p.payload.document_id = d)
         IN  [total_documents |-> Cardinality(ids),
              total_chunks    |-> Len(scrolled),
              total_vectors   |-> Len(points),
              documents       |-> {[document_id |-> d,
                                    name   |-> Of(d)[1].payload.document_name,
                                    chunks |-> Len(Of(d))] : d \in ids}]

\* VectorDatabase.get_document_stats (lines 264-313)
get_document_stats(store_ok) ==
    IF ~store_ok \/ ~collection_exists
    THEN [total_documents |-> 0, total_chunks |-> 0, total_vectors |-> 0,
          documents |-> {}]
    ELSE LET scrolled == Keep(points, ScrollLimit)
             ids      == {scrolled[k].payload.document_id : k \in 1..Len(scrolled)}
             Of(d)    == SelectSeq(scrolled, LAMBDA p : p.payload.document_id = d)
         IN  [total_documents |-> Cardinality(ids),
              total_chunks    |-> Len(scrolled),
              total_vectors   |-> Len(points),
              documents       |-> {[document_id |-> d,
                                    name   |-> Of(d)[1].payload.document_name,
                                    chunks |-> Len(Of(d))] : d \in ids}]

\* lines 337-347: client.delete with a filter on the payload's document_id
ClientDelete(pts, document_id) ==
    SelectSeq(pts, LAMBDA p : ~(/\ "document_id" \in DOMAIN p.payload
                                /\ p.payload.document_id = document_id))

\* the points that add_document inserted for the document it named doc
OwnedBy(pts, doc) == SelectSeq(pts, LAMBDA p : p.id[1] = doc)
NotOwnedBy(pts, doc) == SelectSeq(pts, LAMBDA p : p.id[1] # doc)

\* VectorDatabase.delete_document (lines 325-354)
delete_document(document_id, delete_ok) ==
    /\ invoked' = <<"delete">>
    /\ IF ~delete_ok \/ ~collection_exists
       THEN /\ ret' = FALSE
            /\ UNCHANGED <<points, expected>>
       ELSE /\ points' = ClientDelete(points, document_id)
            /\ ret' = TRUE
            /\ expected' = NotOwnedBy(expected, document_id)

\* a clear that drops the collection and reports success without creating it
\* again
clear_database_no_recreate(drop_ok, create_ok) ==
    IF ~drop_ok
    THEN /\ ret' = FALSE
         /\ invoked' = <<"delete_collection">>
         /\ UNCHANGED <<points, collection_exists, expected>>
    ELSE /\ points' = <<>>
         /\ expected' = <<>>
         /\ collection_exists' = FALSE
         /\ ret' = TRUE
         /\ invoked' = <<"delete_collection">>

\* VectorDatabase.clear_database (lines 356-373) with _initialize_collection
\* (lines 62-77): drop the collection, find it missing, create it again
clear_database(drop_ok, create_ok) ==
    IF ~drop_ok
    THEN /\ ret' = FALSE
         /\ invoked' = <<"delete_collection">>
         /\ UNCHANGED <<points, collection_exists, expected>>
    ELSE /\ points' = <<>>
         /\ expected' = <<>>
         /\ collection_exists' = create_ok
         /\ ret' = create_ok
         /\ invoked' = <<"delete_collection", "get_collection", "create_collection">>

ChunkerIdle ==
    /\ text = <<>>
    /\ chunk_size = 0
    /\ overlap = 0
    /\ words = <<>>
    /\ chunks = <<>>
    /\ i = 0
    /\ pc_chunk = "idle"
    /\ iterations = 0

BatchIdle ==
    /\ config = <<>>
    /\ files = <<>>
    /\ file_idx = 0
    /\ results = <<>>
    /\ successful_uploads = 0
    /\ output = None
    /\ pc_batch = "idle"
    /\ stages = <<>>
    /\ file_doc = <<>>
    /\ outcomes = <<>>

ChatIdle ==
    /\ conversation_history = <<>>
    /\ answer = None
    /\ prompt = None
    /\ asked = <<>>
    /\ twin = [conversation_history |-> <<>>, history |-> <<>>, prompt |-> None]

InitChunk ==
    /\ IndexIdle
    /\ BatchIdle
    /\ ChatIdle
    /\ text \in SeqsUpTo(Chars, MaxTextLen)
    /\ chunk_size \in -1..MaxChunkSize
    /\ overlap \in -1..MaxOverlap
    /\ words = <<>>
    /\ chunks = <<>>
    /\ i = 0
    /\ pc_chunk = "call"
    /\ iterations = 0

NextChunk ==
    \/ ChunkEnterLoop /\ UNCHANGED <<indexVars, batchVars, chatVars, callerVars>>
    \/ ChunkReturnEmpty /\ UNCHANGED <<indexVars, batchVars, chatVars, callerVars>>
    \/ ChunkReturnWhole /\ UNCHANGED <<indexVars, batchVars, chatVars, callerVars>>
    \/ ChunkRaise /\ UNCHANGED <<indexVars, batchVars, chatVars, callerVars>>
    \/ ChunkIterate /\ UNCHANGED <<indexVars, batchVars, chatVars, callerVars>>
    \/ ChunkExhausted /\ UNCHANGED <<indexVars, batchVars, chatVars, callerVars>>

\* one call of chunk_text on every text and configuration within the bounds
SpecChunk == InitChunk /\ [][NextChunk]_vars

\* the call is executed to its end: the interpreter keeps running its statements
FairSpecChunk == InitChunk /\ [][NextChunk]_vars /\ WF_vars(NextChunk)

\* the statement-by-statement call returns what the function returns
ChunkStepsAgree ==
    /\ pc_chunk = "returned" =>
          (~chunk_text(text, chunk_size, overlap).raised
             /\ chunks = chunk_text(text, chunk_size, overlap).chunks)
    /\ pc_chunk = "raised" => chunk_text(text, chunk_size, overlap).raised

-----------------------------------------------------------------------------
(* DocumentProcessor: the Extractor (document_processor.py 38-303).        *)
(*                                                                         *)
(* A file is a record: name (the filename, a sequence of tokens whose last *)
(* one is the suffix), exists, size (bytes), and what its bytes make the   *)
(* parsing libraries do: header,    primary and secondary (PyPDF2 and      *)
(* pypdf: [raises, pages], a page being [raises, text]), docx ([raises,    *)
(* paragraphs, tables]) and decodes (encoding -> [error, text]).           *)
(* An exception is the record [raised |-> TRUE, error |-> message].        *)

\* config.py line 52 / document_processor.py line 28: max_file_size_mb
MaxFileSizeMb == 50

\* config.py line 98: max_size_mb * 1024 * 1024
MaxSizeBytes == MaxFileSizeMb * 1024 * 1024

\* config.py lines 78-82: get_supported_file_types
SupportedFileTypes == {".pdf", ".docx", ".txt"}

\* str.lower() on the tokens of the model that have an upper-case letter
Lower(tok) ==
    CASE tok = "Successfully" -> "successfully"
      [] tok = "Processed"    -> "processed"
      [] tok = "Failed"       -> "failed"
      [] tok = "Error"        -> "error"
      [] tok = ".PDF"         -> ".pdf"
      [] tok = ".TXT"         -> ".txt"
      [] OTHER                -> tok

LowerAll(s) == [k \in 1..Len(s) |-> Lower(s[k])]

\* Path(filename).suffix.lower()
Suffix(name) ==
    IF name = <<>> THEN ""
    ELSE IF Lower(name[Len(name)]) \in {".pdf", ".docx", ".txt", ".exe"}
         THEN Lower(name[Len(name)]) ELSE ""

\* config.py lines 104-115: validate_file_type
validate_file_type(name) == Suffix(name) \in SupportedFileTypes

\* a size check that lets one byte more through
validate_file_size_lenient(f) == f.exists /\ f.size <= MaxSizeBytes + 1

\* config.py lines 85-101: validate_file_size (OSError for a missing file)
validate_file_size(f) == f.exists /\ f.size <= MaxSizeBytes

\* what an extractor does: it raises or returns (text, metadata); invoked lists
\* the steps and parsing libraries it called on the file, in order
Raise(msg) ==
    [raised |-> TRUE, error |-> msg, text |-> <<>>, metadata |-> <<>>,
     invoked |-> <<>>]
Return(t, md) ==
    [raised |-> FALSE, error |-> <<>>, text |-> t, metadata |-> md,
     invoked |-> <<>>]
After(used, r) == [r EXCEPT !.invoked = used \o r.invoked]

\* line 119: b'%PDF-'
PdfMagic == <<"%", "P", "D", "F", "-">>

\* five bytes that are not the marker, and five that start like it
NotPdf == <<"h", "e", "l", "l", "o">>
NearPdf == <<"%", "P", "D", "F", "1">>

\* bytes.startswith
StartsWith(s, prefix) ==
    Len(s) >= Len(prefix) /\ SubSeq(s, 1, Len(prefix)) = prefix

\* a header test that compares the first four bytes only
HeaderValidShort(header) == StartsWith(header, SubSeq(PdfMagic, 1, 4))

\* lines 117-120: header = file.read(5); header.startswith(b'%PDF-')
HeaderValid(header) == StartsWith(header, PdfMagic)

\* lines 143 and 176: f"\n--- Page {page_num + 1} ---\n{page_text}\n"
PageBlockZeroBased(n, page_text) ==
    <<"\n", "---", " ", "Page", " ", ToString(n - 1), " ", "---", "\n">> \o page_text \o <<"\n">>

PageBlock(n, page_text) ==
    <<"\n", "---", " ", "Page", " ", ToString(n), " ", "---", "\n">> \o page_text \o <<"\n">>

\* the pages' text when a page of whitespace is kept like any other
RECURSIVE PagesTextKeepBlank(_, _)
PagesTextKeepBlank(pages, k) ==
    IF k > Len(pages) THEN <<>>
    ELSE (IF ~pages[k].raises
          THEN PageBlock(k, pages[k].text) ELSE <<>>)
         \o PagesTextKeepBlank(pages, k + 1)

\* lines 139-147 and 172-180: the text of the pages from number k on; a page
\* that raises or is blank adds nothing
RECURSIVE PagesText(_, _)
PagesText(pages, k) ==
    IF k > Len(pages) THEN <<>>
    ELSE (IF ~pages[k].raises /\ ~IsBlank(pages[k].text)
          THEN PageBlock(k, pages[k].text) ELSE <<>>)
         \o PagesText(pages, k + 1)

\* the page whose fetching from reader.pages raises, outside the per-page
\* try of lines 140-147; 0 when the iteration completes
BreaksAt(reader) == IF "breaks_at" \in DOMAIN reader THEN reader.breaks_at ELSE 0

\* lines 128-156 and 159-188: one library's attempt: failed is an exception of
\* the reader, a document of no pages or an exception of the iteration; text
\* is what the loop collected until then; started says that the page count
\* was read (metadata['pages'] and metadata['method'] are set)
ReaderAttempt(reader) ==
    IF reader.raises
    THEN [failed |-> TRUE, error |-> <<"cannot", "parse">>, text |-> <<>>,
          pages |-> 0, started |-> FALSE]
    ELSE IF Len(reader.pages) = 0
    THEN [failed |-> TRUE, error |-> <<"PDF", "has", "no", "pages">>, text |-> <<>>,
          pages |-> 0, started |-> FALSE]
    ELSE IF BreaksAt(reader) > 0
    THEN [failed |-> TRUE, error |-> <<"cannot", "read", "page">>,
          text |-> PagesText(SubSeq(reader.pages, 1, BreaksAt(reader) - 1), 1),
          pages |-> Len(reader.pages), started |-> TRUE]
    ELSE [failed |-> FALSE, error |-> <<>>, text |-> PagesText(reader.pages, 1),
          pages |-> Len(reader.pages), started |-> TRUE]

\* lines 171 and 191-200: the text variable after both attempts: pypdf resets
\* it once it has read its page count, otherwise it still holds what PyPDF2
\* collected
CarriedText(first, second) == IF second.started THEN second.text ELSE first.text

\* DocumentProcessor._extract_pdf_text (lines 94-200)
extract_pdf_text(f) ==
    IF ~f.exists THEN Raise(<<"PDF", "file", "not", "found">>)
    ELSE IF f.size = 0 THEN Raise(<<"PDF", "file", "is", "empty", "(0", "bytes)">>)
    ELSE IF ~HeaderValid(f.header)
         THEN After(<<"header">>,
                    Raise(<<"File", "is", "not", "a", "valid", "PDF", "(missing",
                            "PDF", "header)">>))
    ELSE LET first  == ReaderAttempt(f.primary)
             second == ReaderAttempt(f.secondary)
             last   == IF second.started THEN second ELSE first
             t      == CarriedText(first, second)
         IN  IF ~first.failed /\ ~IsBlank(first.text)
             THEN After(<<"header", "PyPDF2">>,
                        Return(Strip(first.text),
                               [pages |-> first.pages, method |-> "PyPDF2"]))
             ELSE IF ~second.failed /\ ~IsBlank(second.text)
             THEN After(<<"header", "PyPDF2", "pypdf">>,
                        Return(Strip(second.text),
                               [pages |-> second.pages, method |-> "pypdf"]))
             ELSE IF ~IsBlank(t)
             THEN After(<<"header", "PyPDF2", "pypdf">>,
                        Return(Strip(t),
                               [pages |-> last.pages,
                                method |-> IF second.started THEN "pypdf" ELSE "PyPDF2"]))
             ELSE After(<<"header", "PyPDF2", "pypdf">>, Raise(<<"Both", "PDF", "readers", "failed", "to", "extract", "text.">>
                        \o (IF first.failed THEN <<"PyPDF2:">> \o first.error ELSE <<>>)
                        \o (IF second.failed THEN <<"pypdf:">> \o second.error ELSE <<>>)))

\* lines 224-227: the non-blank paragraphs, each followed by a newline
RECURSIVE ParagraphsText(_)
ParagraphsText(ps) ==
    IF ps = <<>> THEN <<>>
    ELSE (IF IsBlank(Head(ps)) THEN <<>> ELSE Head(ps) \o <<"\n">>)
         \o ParagraphsText(Tail(ps))

\* lines 235-241: " | ".join of the stripped non-empty cells of a row
RECURSIVE RowCells(_)
RowCells(cells) ==
    IF cells = <<>> THEN <<>>
    ELSE (IF IsBlank(Head(cells)) THEN <<>> ELSE <<Strip(Head(cells))>>)
         \o RowCells(Tail(cells))

RECURSIVE JoinCells(_)
JoinCells(cs) ==
    IF cs = <<>> THEN <<>>
    ELSE IF Len(cs) = 1 THEN cs[1]
    ELSE cs[1] \o <<" ", "|", " ">> \o JoinCells(Tail(cs))

RECURSIVE RowsText(_)
RowsText(rows) ==
    IF rows = <<>> THEN <<>>
    ELSE (IF RowCells(Head(rows)) = <<>> THEN <<>>
          ELSE JoinCells(RowCells(Head(rows))) \o <<"\n">>)
         \o RowsText(Tail(rows))

\* lines 230-241: every table adds its marker, then its rows
RECURSIVE TablesText(_, _)
TablesText(tables, k) ==
    IF k > Len(tables) THEN <<>>
    ELSE <<"\n", "---", " ", "Table", " ", ToString(k), " ", "---", "\n">>
         \o RowsText(tables[k]) \o TablesText(tables, k + 1)

\* DocumentProcessor._extract_docx_text (lines 202-257)
extract_docx_text(f) ==
    IF ~f.exists THEN Raise(<<"Failed", "to", "extract", "text", "from", "DOCX:", "not", "found">>)
    ELSE IF f.size = 0
         THEN Raise(<<"Failed", "to", "extract", "text", "from", "DOCX:", "empty", "(0", "bytes)">>)
    ELSE IF f.docx.raises
         THEN After(<<"Document">>,
                    Raise(<<"Failed", "to", "extract", "text", "from", "DOCX:",
                            "cannot", "parse">>))
    ELSE LET t == ParagraphsText(f.docx.paragraphs) \o TablesText(f.docx.tables, 1)
         IN  After(<<"Document">>,
                IF IsBlank(t) THEN Raise(<<"No", "text", "found", "in", "DOCX", "document">>)
                ELSE Return(Strip(t),
                            [paragraphs |-> Len(SelectSeq(f.docx.paragraphs,
                                                          LAMBDA para : ~IsBlank(para))),
                             tables |-> Len(f.docx.tables), method |-> "python-docx"]))

\* line 281: the encodings, in the order they are tried
Encodings == <<"utf-8", "utf-16", "latin-1", "cp1252", "iso-8859-1">>

\* len(text.splitlines())
CountLines(t) ==
    Len(SelectSeq(t, LAMBDA c : c = "\n"))
      + (IF t # <<>> /\ t[Len(t)] # "\n" THEN 1 ELSE 0)

\* lines 283-303: the encodings from number k on; decodes[e].error is "" for a
\* clean read, "decode" for UnicodeDecodeError, anything else another exception
RECURSIVE TryEncodings(_, _)
TryEncodings(f, k) ==
    IF k > Len(Encodings)
    THEN Raise(<<"Failed", "to", "decode", "text", "file">>)
    ELSE LET d == f.decodes[Encodings[k]]
         IN  After(<<Encodings[k]>>,
                IF d.error = ""
                THEN Return(Strip(d.text), [encoding |-> Encodings[k],
                                            lines |-> CountLines(d.text),
                                            method |-> "plain_text"])
                ELSE IF d.error # "decode" /\ k = Len(Encodings)
                THEN Raise(<<"Failed", "to", "read", "text", "file">>)
                ELSE TryEncodings(f, k + 1))

\* DocumentProcessor._extract_txt_text (lines 259-303)
extract_txt_text(f) ==
    IF ~f.exists THEN Raise(<<"TXT", "file", "not", "found">>)
    ELSE IF f.size = 0
         THEN Return(<<>>, [encoding |-> "utf-8", lines |-> 0, method |-> "plain_text"])
    ELSE TryEncodings(f, 1)

ExtractFailure(f, msg) ==
    [success |-> FALSE, text |-> <<>>, filename |-> f.name,
     file_type |-> Suffix(f.name), error |-> msg, metadata |-> <<>>]

\* lines 69-78: the extractor of the file's type
Extractor(f) ==
    CASE Suffix(f.name) = ".pdf"  -> After(<<"_extract_pdf_text">>, extract_pdf_text(f))
      [] Suffix(f.name) = ".docx" -> After(<<"_extract_docx_text">>, extract_docx_text(f))
      [] OTHER                    -> After(<<"_extract_txt_text">>, extract_txt_text(f))

\* DocumentProcessor.extract_text (lines 38-92): the returned dict (result) and
\* the checks, extractors and libraries the call invoked
extract_run(f) ==
    IF ~validate_file_type(f.name)
    THEN [result  |-> ExtractFailure(f, <<"Unsupported", "file", "type:", Suffix(f.name)>>),
          invoked |-> <<"validate_file_type">>]
    ELSE IF ~validate_file_size(f)
    THEN [result  |-> ExtractFailure(f, <<"File", "too", "large", "(max",
                                         ToString(MaxFileSizeMb), "MB)">>),
          invoked |-> <<"validate_file_type", "validate_file_size">>]
    ELSE LET got == Extractor(f)
         IN  [result |->
                 IF got.raised THEN ExtractFailure(f, got.error)
                 ELSE IF got.text # <<>> /\ ~IsBlank(got.text)
                 THEN [success |-> TRUE, text |-> got.text, filename |-> f.name,
                       file_type |-> Suffix(f.name), error |-> <<>>,
                       metadata |-> got.metadata]
                 ELSE ExtractFailure(f, <<"No", "text", "could", "be", "extracted",
                                         "from", "the", "document.">>),
              invoked |-> <<"validate_file_type", "validate_file_size">> \o got.invoked]

extract_text(f) == extract_run(f).result

-----------------------------------------------------------------------------
(* The Index under its callers: any sequence of calls of its public        *)
(* methods, each run to its end before the next begins.                    *)

\* a blank text and "b a b"
IndexTexts == {<<" ">>, <<"b", " ", "a", " ", "b">>}

\* chunk_size and chunk_overlap as the caller's metadata gives them; <<>> leaves
\* both to the defaults
ChunkConfigs ==
    {<<>>,
     [chunk_size |-> 2, chunk_overlap |-> 1],
     [chunk_size |-> 1, chunk_overlap |-> 1]}

\* the caller's extra_metadata: none, and keys that the payload of lines
\* 158-165 carries as well
ExtraMetadatas ==
    {<<>>,
     [chunk_id |-> 0],
     [document_id |-> 1]}

Metadatas ==
    {MergePayload([filename |-> "notes.txt", file_type |-> ".txt",
                   extra_metadata |-> e], c) :
        e \in ExtraMetadatas, c \in ChunkConfigs}

Queries == {<<" ">>, <<"a">>}

\* the same with the empty query and one of several whitespace characters
AllQueries == Queries \cup {<<>>, <<" ", "\n">>}
Thresholds == {0, 50}
Filters == {<<>>, [document_id |-> 1]}

\* what the collaborators of one call do: answer, or raise in the embedding
\* model, or raise in Qdrant
Outcomes == {"ok", "embed_raises", "store_raises"}

noSearch == search_result' = <<>>

Add ==
    \E t \in IndexTexts, metadata \in Metadatas, outcome \in Outcomes :
        /\ uuids < MaxDocuments
        /\ call' = [op |-> "add", text |-> t, metadata |-> metadata,
                    outcome |-> outcome]
        /\ add_document(t, metadata, outcome # "embed_raises", outcome # "store_raises")
        /\ noSearch
        /\ UNCHANGED collection_exists

SearchOf(queries) ==
    \E query \in queries, limit \in 0..MaxLimit, score_threshold \in Thresholds,
       filter_conditions \in Filters, outcome \in {"ok", "store_raises"} :
        /\ call' = [op |-> "search", query |-> query, limit |-> limit,
                    score_threshold |-> score_threshold,
                    filter_conditions |-> filter_conditions]
        /\ search_similar(query, limit, score_threshold, filter_conditions,
                          outcome # "embed_raises", outcome # "store_raises")
        /\ UNCHANGED <<collection_exists, points, uuids, added, expected>>

Search == SearchOf(Queries)

Stats ==
    \E store_ok \in BOOLEAN :
        /\ call' = [op |-> "stats"]
        /\ ret' = get_document_stats(store_ok)
        /\ invoked' = IF store_ok /\ collection_exists
                      THEN <<"get_collection", "scroll">> ELSE <<"get_collection">>
        /\ noSearch
        /\ UNCHANGED <<collection_exists, points, uuids, added, expected>>

Delete ==
    \E document_id \in 0..MaxDocuments, delete_ok \in BOOLEAN :
        /\ call' = [op |-> "delete", document_id |-> document_id]
        /\ delete_document(document_id, delete_ok)
        /\ noSearch
        /\ UNCHANGED <<collection_exists, uuids, added>>

Clear ==
    \E drop_ok, create_ok \in BOOLEAN :
        /\ call' = [op |-> "clear"]
        /\ clear_database(drop_ok, create_ok)
        /\ noSearch
        /\ UNCHANGED <<uuids, added>>

InitIndex == ChunkerIdle /\ IndexIdle /\ BatchIdle /\ ChatIdle

NextIndex ==
    \/ Add /\ UNCHANGED <<callerVars, chunkerVars, batchVars, chatVars>>
    \/ Search /\ UNCHANGED <<callerVars, chunkerVars, batchVars, chatVars>>
    \/ Stats /\ UNCHANGED <<callerVars, chunkerVars, batchVars, chatVars>>
    \/ Delete /\ UNCHANGED <<callerVars, chunkerVars, batchVars, chatVars>>
    \/ Clear /\ UNCHANGED <<callerVars, chunkerVars, batchVars, chatVars>>

SpecIndex == InitIndex /\ [][NextIndex]_vars

-----------------------------------------------------------------------------
(* ResearchAssistant.process_documents and process_single_document         *)
(* (research_assistant.py 62-165): the Orchestrator on ingestion.          *)
(* A status line is a sequence of tokens: words, blanks and numerals.      *)

\* lines 73-80: the upload is a path or has a .name, and the path exists
Readable(f) == f.handle \in {"str", "named"} /\ f.exists

\* the words of an error message, blank-separated
Spaced(ws) == Join([k \in 1..Len(ws) |-> <<ws[k]>>])

Quoted(name) == <<"'">> \o name \o <<"'">>

\* line 98: the line of an upload that raised in the loop body
ErrorLine(name, msg) ==
    <<"[x]", " ", "Error", " ", "processing", " ">> \o Quoted(name)
        \o <<":", " ">> \o Spaced(msg)

\* line 131: the line of a failed extraction
FailedLine(name, msg) ==
    <<"[x]", " ", "Failed", " ", "to", " ", "process", " ">> \o Quoted(name)
        \o <<":", " ">> \o Spaced(msg)

\* line 140: the line of a text without a meaningful line
EmptyLine(name) ==
    <<"[x]", " ">> \o Quoted(name)
        \o <<" ">> \o Spaced(<<"appears", "to", "be", "empty">>)

\* lines 157-159: the line of an indexed document
SuccessLine(name, db_result) ==
    <<"[ok]", " ", "Successfully", " ", "processed", " ">> \o Quoted(name)
        \o <<":", " ", ToString(db_result.chunks_added), " ", "chunks", " ", "added",
             " ", "(", ToString(db_result.total_characters), " ", "characters)">>

\* line 161: the line of a failed add
DbFailedLine(name, msg) ==
    <<"[x]", " ", "Failed", " ", "to", " ", "add", " ">> \o Quoted(name)
        \o <<" ", "to", " ", "database:", " ", msg>>

\* s contains sub (Python's `sub in s`)
Contains(s, sub) ==
    \E k \in 0..(Len(s) - Len(sub)) : SubSeq(s, k + 1, k + Len(sub)) = sub

\* line 91: if "successfully processed" in result.lower()
CountsAsSuccess(result) ==
    Contains(LowerAll(result), <<"successfully", " ", "processed">>)

\* lines 103-108: the summary
Summary(successful, total_files) ==
    IF successful > 0
    THEN <<"\n", "\n", "Summary:", " ", "Successfully", " ", "processed", " ",
           ToString(successful), "/", ToString(total_files), " ", "files.">>
    ELSE <<"\n", "\n", "Summary:", " ", "No", " ", "files", " ", "were", " ",
           "successfully", " ", "processed", " ", "out", " ", "of", " ",
           ToString(total_files), " ", "files.">>

\* "\n".join(lines)
RECURSIVE JoinLines(_)
JoinLines(lines) ==
    IF lines = <<>> THEN <<>>
    ELSE IF Len(lines) = 1 THEN lines[1]
    ELSE lines[1] \o <<"\n">> \o JoinLines(Tail(lines))

\* lines 144-151: the metadata handed to add_document
DocumentMetadata(f, extraction_result, cfg) ==
    [filename       |-> f.name,
     file_type      |-> extraction_result.file_type,
     upload_time    |-> "now",
     chunk_size     |-> Get(cfg, "chunk_size", DefaultChunkSize),
     chunk_overlap  |-> Get(cfg, "chunk_overlap", DefaultChunkOverlap),
     extra_metadata |-> extraction_result.metadata]

\* lines 138-139: no line of the text has a non-blank character
NoMeaningfulLines(t) == IsBlank(t)

\* lines 71-100 and 113-165: the status line of one upload, for what the
\* collaborators do on it
StatusLine(f, cfg, outcome) ==
    LET extraction_result == extract_text(f)
        db_result == add_result(extraction_result.text,
                                DocumentMetadata(f, extraction_result, cfg),
                                outcome # "embed_raises",
                                outcome # "store_raises").ret
    IN  IF ~Readable(f)
        THEN ErrorLine(f.name, <<"Cannot", "read", "uploaded", "file:",
                                 "unsupported", "type">>)
        ELSE IF f.size = 0
        THEN ErrorLine(f.name, <<"Uploaded", "file", "is", "empty.">>)
        ELSE IF ~extraction_result.success
        THEN FailedLine(f.name, extraction_result.error)
        ELSE IF NoMeaningfulLines(extraction_result.text)
        THEN EmptyLine(f.name)
        ELSE IF db_result.success
        THEN SuccessLine(f.name, db_result)
        ELSE DbFailedLine(f.name, db_result.error)

\* the stages an upload went through, from the branch that ended it
StageOrder == <<"received", "validated", "extracted", "chunked+embedded", "indexed">>

StagesTo(n, reached) ==
    SubSeq(StageOrder, 1, n) \o (IF reached THEN <<>> ELSE <<"failed">>)

\* an abort of the batch at the first upload that raises
AfterFileAbort(idx, total) == total

\* lines 70 and 97-100: the except clause is inside the loop body, and the
\* loop goes on with the next file
AfterFile(idx, total) == idx + 1

\* lines 62-68: the call enters the loop
BatchEnter ==
    /\ pc_batch = "call"
    /\ files # <<>>
    /\ pc_batch' = "loop"
    /\ UNCHANGED <<config, files, file_idx, results, successful_uploads, output,
                   stages, file_doc, outcomes>>
    /\ UNCHANGED indexVars

\* lines 63-64: if not files: return "No files uploaded."
BatchNoFiles ==
    /\ pc_batch = "call"
    /\ files = <<>>
    /\ output' = <<"No", " ", "files", " ", "uploaded.">>
    /\ pc_batch' = "returned"
    /\ UNCHANGED <<config, files, file_idx, results, successful_uploads,
                   stages, file_doc, outcomes>>
    /\ UNCHANGED indexVars

\* lines 71-85 and 97-100: an upload that cannot be read or is empty raises,
\* and its line is appended by the except clause
RejectFile ==
    /\ pc_batch = "loop"
    /\ file_idx < Len(files)
    /\ LET f == files[file_idx + 1]
       IN  /\ ~Readable(f) \/ f.size = 0
           /\ results' = Append(results, StatusLine(f, config, "ok"))
           /\ stages' = Append(stages, StagesTo(1, FALSE))
           /\ file_doc' = Append(file_doc, 0)
           /\ outcomes' = Append(outcomes, "ok")
    /\ file_idx' = AfterFile(file_idx, Len(files))
    /\ UNCHANGED <<config, files, successful_uploads, output, pc_batch>>
    /\ UNCHANGED indexVars

\* lines 87-95 and 113-165: process_single_document on a readable upload, its
\* line appended and counted
ProcessSingle ==
    \E outcome \in Outcomes :
        /\ pc_batch = "loop"
        /\ file_idx < Len(files)
        /\ LET f == files[file_idx + 1]
               extraction_result == extract_text(f)
               result == StatusLine(f, config, outcome)
           IN  /\ Readable(f) /\ f.size # 0
               /\ IF ~extraction_result.success
                      \/ NoMeaningfulLines(extraction_result.text)
                  THEN /\ stages' = Append(stages,
                              IF ~validate_file_type(f.name) \/ ~validate_file_size(f)
                              THEN StagesTo(1, FALSE)
                              ELSE IF ~extraction_result.success
                              THEN StagesTo(2, FALSE) ELSE StagesTo(3, FALSE))
                       /\ file_doc' = Append(file_doc, 0)
                       /\ UNCHANGED indexVars
                  ELSE /\ call' = [op |-> "add", text |-> extraction_result.text,
                                   metadata |-> DocumentMetadata(f, extraction_result,
                                                                 config),
                                   outcome |-> outcome]
                       /\ add_document(extraction_result.text,
                                       DocumentMetadata(f, extraction_result, config),
                                       outcome # "embed_raises",
                                       outcome # "store_raises")
                       /\ noSearch
                       /\ UNCHANGED collection_exists
                       /\ stages' = Append(stages,
                              IF ret'.success THEN StagesTo(5, TRUE)
                              ELSE IF uuids' # uuids THEN StagesTo(4, FALSE)
                              ELSE StagesTo(3, FALSE))
                       /\ file_doc' = Append(file_doc,
                                             IF uuids' # uuids THEN uuids' ELSE 0)
               /\ results' = Append(results, result)
               /\ successful_uploads' =
                      successful_uploads + (IF CountsAsSuccess(result) THEN 1 ELSE 0)
               /\ outcomes' = Append(outcomes, outcome)
        /\ file_idx' = file_idx + 1
        /\ UNCHANGED <<config, files, output, pc_batch>>

\* lines 102-110: the summary is appended to the joined lines
BatchReturn ==
    /\ pc_batch = "loop"
    /\ file_idx >= Len(files)
    /\ output' = JoinLines(results) \o Summary(successful_uploads, Len(files))
    /\ pc_batch' = "returned"
    /\ UNCHANGED <<config, files, file_idx, results, successful_uploads,
                   stages, file_doc, outcomes>>
    /\ UNCHANGED indexVars

\* ---- the uploads of a batch

MaxFiles == 3

NoReader == [raises |-> TRUE, pages |-> <<>>]
NoDocx == [raises |-> TRUE, paragraphs |-> <<>>, tables |-> <<>>]
Undecodable == [e \in Range(Encodings) |-> [error |-> "decode", text |-> <<>>]]
Decodable(t) == [e \in Range(Encodings) |-> [error |-> "", text |-> t]]
Page(t) == [raises |-> FALSE, text |-> t]
BrokenPage == [raises |-> TRUE, text |-> <<>>]

\* a plain-text file of two lines
GoodTxt ==
    [name |-> <<"notes", ".txt">>, handle |-> "str", exists |-> TRUE, size |-> 6,
     header |-> NotPdf, primary |-> NoReader, secondary |-> NoReader,
     docx |-> NoDocx, decodes |-> Decodable(<<"b", " ", "a", "\n", "b", "\n">>)]

\* a PDF that the primary library cannot parse and the secondary reads, its
\* second page broken
GoodPdf ==
    [name |-> <<"paper", ".PDF">>, handle |-> "named", exists |-> TRUE, size |-> 9,
     header |-> PdfMagic, primary |-> NoReader,
     secondary |-> [raises |-> FALSE,
                    pages  |-> <<Page(<<"a", " ", "a">>), BrokenPage>>],
     docx |-> NoDocx, decodes |-> Undecodable]

\* a file named 'Successfully Processed.pdf' whose first bytes are not %PDF-
BadMagicPdf ==
    [name |-> <<"Successfully", " ", "Processed", ".pdf">>, handle |-> "str",
     exists |-> TRUE, size |-> 9, header |-> NotPdf, primary |-> NoReader,
     secondary |-> NoReader, docx |-> NoDocx, decodes |-> Undecodable]

\* a Word file of zero bytes
EmptyDocx ==
    [name |-> <<"empty", ".docx">>, handle |-> "str", exists |-> TRUE, size |-> 0,
     header |-> NotPdf, primary |-> NoReader, secondary |-> NoReader,
     docx |-> NoDocx, decodes |-> Undecodable]

\* an upload that is neither a path nor an object with a .name
Unreadable ==
    [name |-> <<"gone", ".txt">>, handle |-> "other", exists |-> FALSE, size |-> 0,
     header |-> NotPdf, primary |-> NoReader, secondary |-> NoReader,
     docx |-> NoDocx, decodes |-> Undecodable]

\* a file of an unsupported type
Executable ==
    [name |-> <<"tool", ".exe">>, handle |-> "str", exists |-> TRUE, size |-> 9,
     header |-> NotPdf, primary |-> NoReader, secondary |-> NoReader,
     docx |-> NoDocx, decodes |-> Undecodable]

BatchFiles == {GoodTxt, GoodPdf, BadMagicPdf, EmptyDocx, Unreadable, Executable}

\* CHUNK_SIZE and CHUNK_OVERLAP unset (config.py lines 49-50), and set to 2 and 1
BatchConfigs == {<<>>, [chunk_size |-> 2, chunk_overlap |-> 1]}

InitBatch ==
    /\ ChunkerIdle
    /\ IndexIdle
    /\ ChatIdle
    /\ config \in BatchConfigs
    /\ files \in SeqsUpTo(BatchFiles, MaxFiles)
    /\ file_idx = 0
    /\ results = <<>>
    /\ successful_uploads = 0
    /\ output = None
    /\ pc_batch = "call"
    /\ stages = <<>>
    /\ file_doc = <<>>
    /\ outcomes = <<>>

NextBatch ==
    \/ BatchEnter /\ UNCHANGED <<callerVars, chunkerVars, chatVars>>
    \/ BatchNoFiles /\ UNCHANGED <<callerVars, chunkerVars, chatVars>>
    \/ RejectFile /\ UNCHANGED <<callerVars, chunkerVars, chatVars>>
    \/ ProcessSingle /\ UNCHANGED <<callerVars, chunkerVars, chatVars>>
    \/ BatchReturn /\ UNCHANGED <<callerVars, chunkerVars, chatVars>>

\* one call of process_documents on every batch within the bounds
SpecBatch == InitBatch /\ [][NextBatch]_vars

-----------------------------------------------------------------------------
(* DocumentProcessor.extract_text on its own: one call on one file.        *)

MaxPages == 2
MaxParagraphs == 2
MaxTables == 2

\* a file with no content for any parser, to be filled in
BlankFile(name, size) ==
    [name |-> name, handle |-> "str", exists |-> TRUE, size |-> size,
     header |-> (IF size = 0 THEN <<>> ELSE NotPdf),
     primary |-> NoReader, secondary |-> NoReader,
     docx |-> NoDocx, decodes |-> Undecodable, written |-> None]

\* sizes of files that have content: small, the ceiling, one byte above it
ContentSizes == {9, MaxSizeBytes, MaxSizeBytes + 1}

\* what page.extract_text() gives: text, whitespace, an exception
PageKinds == {Page(<<"a">>), Page(<<" ", "\n">>), BrokenPage}

\* what a PDF library makes of the file: it raises, or it finds these pages
Readers ==
    {NoReader} \cup
    {[raises |-> FALSE, pages |-> ps] : ps \in SeqsUpTo(PageKinds, MaxPages)}

\* the first five bytes of a file sent as a PDF
Headers == {PdfMagic, NearPdf, NotPdf}

\* a library that read some pages and raises on fetching the last one
BrokenReaders ==
    {[raises |-> FALSE, pages |-> ps, breaks_at |-> Len(ps)] :
        ps \in {qs \in SeqsUpTo(PageKinds, MaxPages) : Len(qs) >= 2}}

\* a library that reads one page of text
PlainReader == [raises |-> FALSE, pages |-> <<Page(<<"a">>)>>]

\* PDFs of supported size with the marker, by what the two libraries make of
\* them; and readable PDFs of every other size and header
PdfFiles ==
    {[BlankFile(<<"paper", ".pdf">>, 9) EXCEPT
        !.header = PdfMagic, !.primary = r1, !.secondary = r2] :
        r1 \in Readers \cup BrokenReaders, r2 \in Readers \cup BrokenReaders}
    \cup
    {[BlankFile(<<"paper", ".pdf">>, size) EXCEPT
        !.header = h, !.primary = r1, !.secondary = PlainReader] :
        size \in ContentSizes, h \in Headers, r1 \in {NoReader, PlainReader}}

ParagraphKinds == {<<"a">>, <<" ">>}

\* a table is its rows, a row its cells: no row, a row of blank and empty
\* cells, a row with text in two of three cells
TableKinds == {<<>>, <<<< <<" ">>, <<>> >>>>, <<<< <<"a">>, <<" ">>, <<"b">> >>>>}

Documents ==
    {NoDocx} \cup
    {[raises |-> FALSE, paragraphs |-> ps, tables |-> ts] :
        ps \in SeqsUpTo(ParagraphKinds, MaxParagraphs),
        ts \in SeqsUpTo(TableKinds, MaxTables)}

DocxFiles ==
    {[BlankFile(<<"report", ".docx">>, size) EXCEPT !.docx = d] :
        size \in ContentSizes, d \in Documents}

\* open(..., encoding=e).read() raises something other than UnicodeDecodeError
Unopenable == [e \in Range(Encodings) |-> [error |-> "os", text |-> <<>>]]

\* what the five decoders make of the bytes
TxtDecodes ==
    {Decodable(<<" ", "a", " ", "b", "\n">>),
     Decodable(<<" ", "\n">>),
     [Decodable(<<"a">>) EXCEPT !["utf-8"] = [error |-> "decode", text |-> <<>>]],
     Undecodable,
     Unopenable}

TxtFiles ==
    {[BlankFile(<<"notes", ".TXT">>, size) EXCEPT !.decodes = d] :
        size \in ContentSizes, d \in TxtDecodes}

\* text files as bytes: the characters a, space, e-acute and the euro sign
\* (tokens "a", " ", "e_acute", "euro"), and bytes written as two hex digits
MaxWritten == 3
TextChars == {"a", " ", "e_acute", "euro"}

\* str.encode: the bytes of one character, <<>> where the encoding has none
EncodeChar(encoding, c) ==
    CASE encoding = "utf-8" ->
            (CASE c = "a" -> <<"61">> [] c = " " -> <<"20">>
               [] c = "e_acute" -> <<"C3", "A9">> [] c = "euro" -> <<"E2", "82", "AC">>)
      [] encoding = "utf-16" ->
            (CASE c = "a" -> <<"61", "00">> [] c = " " -> <<"20", "00">>
               [] c = "e_acute" -> <<"E9", "00">> [] c = "euro" -> <<"AC", "20">>)
      [] encoding = "cp1252" ->
            (CASE c = "a" -> <<"61">> [] c = " " -> <<"20">>
               [] c = "e_acute" -> <<"E9">> [] c = "euro" -> <<"80">>)
      [] OTHER ->
            (CASE c = "a" -> <<"61">> [] c = " " -> <<"20">>
               [] c = "e_acute" -> <<"E9">> [] c = "euro" -> <<>>)

Encodable(encoding, t) == \A k \in 1..Len(t) : EncodeChar(encoding, t[k]) # <<>>

RECURSIVE EncodeChars(_, _)
EncodeChars(encoding, t) ==
    IF t = <<>> THEN <<>>
    ELSE EncodeChar(encoding, Head(t)) \o EncodeChars(encoding, Tail(t))

\* open(path, 'w', encoding=encoding).write(t): utf-16 starts with the byte
\* order mark FF FE
Encode(encoding, t) ==
    (IF encoding = "utf-16" THEN <<"FF", "FE">> ELSE <<>>) \o EncodeChars(encoding, t)

\* a decoder's result: the characters, or the exception it raised
Decoded(t) == [error |-> "", text |-> t]
DecodeError(kind) == [error |-> kind, text |-> <<>>]
Then(c, rest) == IF rest.error # "" THEN rest ELSE Decoded(<<c>> \o rest.text)

\* the utf-8 decoder: one-, two- and three-byte sequences; a lead byte without
\* its continuation bytes, or a byte that cannot start a sequence, is
\* UnicodeDecodeError
RECURSIVE DecodeUtf8(_)
DecodeUtf8(bs) ==
    IF bs = <<>> THEN Decoded(<<>>)
    ELSE IF bs[1] = "61" THEN Then("a", DecodeUtf8(Tail(bs)))
    ELSE IF bs[1] = "20" THEN Then(" ", DecodeUtf8(Tail(bs)))
    ELSE IF bs[1] = "00" THEN Then("U+0000", DecodeUtf8(Tail(bs)))
    ELSE IF StartsWith(bs, <<"C3", "A9">>)
         THEN Then("e_acute", DecodeUtf8(SubSeq(bs, 3, Len(bs))))
    ELSE IF StartsWith(bs, <<"C3", "82">>)
         THEN Then("A_circumflex", DecodeUtf8(SubSeq(bs, 3, Len(bs))))
    ELSE IF StartsWith(bs, <<"C3", "AC">>)
         THEN Then("i_grave", DecodeUtf8(SubSeq(bs, 3, Len(bs))))
    ELSE IF StartsWith(bs, <<"C3", "80">>)
         THEN Then("A_grave", DecodeUtf8(SubSeq(bs, 3, Len(bs))))
    ELSE IF StartsWith(bs, <<"E2", "82", "AC">>)
         THEN Then("euro", DecodeUtf8(SubSeq(bs, 4, Len(bs))))
    ELSE DecodeError("decode")

\* the utf-16 decoder behind open(): the stream must start with a byte order
\* mark (UnicodeError, not UnicodeDecodeError, when it does not); then
\* little-endian pairs, a single trailing byte being UnicodeDecodeError
RECURSIVE DecodePairs(_)
DecodePairs(bs) ==
    IF bs = <<>> THEN Decoded(<<>>)
    ELSE IF Len(bs) = 1 THEN DecodeError("decode")
    ELSE Then(CASE SubSeq(bs, 1, 2) = <<"61", "00">> -> "a"
                [] SubSeq(bs, 1, 2) = <<"20", "00">> -> " "
                [] SubSeq(bs, 1, 2) = <<"E9", "00">> -> "e_acute"
                [] SubSeq(bs, 1, 2) = <<"AC", "20">> -> "euro"
                [] OTHER -> "other",
              DecodePairs(SubSeq(bs, 3, Len(bs))))

DecodeUtf16(bs) ==
    IF StartsWith(bs, <<"FF", "FE">>) THEN DecodePairs(SubSeq(bs, 3, Len(bs)))
    ELSE IF Len(bs) < 2 THEN DecodeError("decode")
    ELSE DecodeError("bom")

\* latin-1 (and its alias iso-8859-1) gives every byte its own character
Latin1Char(b) ==
    CASE b = "61" -> "a"            [] b = "20" -> " "
      [] b = "E9" -> "e_acute"      [] b = "80" -> "U+0080"
      [] b = "C3" -> "A_tilde"      [] b = "A9" -> "copyright"
      [] b = "E2" -> "a_circumflex" [] b = "82" -> "U+0082"
      [] b = "AC" -> "not_sign"     [] b = "FF" -> "y_diaeresis"
      [] b = "FE" -> "thorn"        [] b = "00" -> "U+0000"

\* cp1252 differs in 80-9F: 80 is the euro sign, 82 a low quotation mark
Cp1252Char(b) ==
    CASE b = "80" -> "euro" [] b = "82" -> "low_quote" [] OTHER -> Latin1Char(b)

\* bytes.decode(encoding), as open(..., encoding=encoding).read() does it
Decode(encoding, bs) ==
    CASE encoding = "utf-8"  -> DecodeUtf8(bs)
      [] encoding = "utf-16" -> DecodeUtf16(bs)
      [] encoding = "cp1252" -> Decoded([k \in 1..Len(bs) |-> Cp1252Char(bs[k])])
      [] OTHER               -> Decoded([k \in 1..Len(bs) |-> Latin1Char(bs[k])])

\* a text file written with the given encoding; written remembers how
WrittenFile(encoding, t) ==
    [BlankFile(<<"notes", ".txt">>, Len(Encode(encoding, t))) EXCEPT
        !.decodes = [e \in Range(Encodings) |-> Decode(e, Encode(encoding, t))],
        !.written = [encoding |-> encoding, text |-> t]]

\* the texts a file of that encoding can hold, whitespace-only ones left out
Writable(encoding) ==
    {t \in SeqsUpTo(TextChars, MaxWritten) : ~IsBlank(t) /\ Encodable(encoding, t)}

WrittenFiles ==
    UNION {{WrittenFile(encoding, t) : t \in Writable(encoding)} :
              encoding \in Range(Encodings)}

\* files of zero bytes, of an unsupported type and without a suffix
OtherFiles ==
    {BlankFile(name, size) :
        name \in {<<"paper", ".pdf">>, <<"report", ".docx">>, <<"notes", ".txt">>},
        size \in {0}}
    \cup
    {BlankFile(name, size) :
        name \in {<<"tool", ".exe">>, <<"README">>},
        size \in {0} \cup ContentSizes}

ExtractFiles == PdfFiles \cup DocxFiles \cup TxtFiles \cup WrittenFiles \cup OtherFiles

\* one call of extract_text
Extract ==
    \E f \in ExtractFiles :
        /\ call.op = "init"
        /\ call' = [op |-> "extract", file |-> f]
        /\ ret' = extract_run(f).result
        /\ invoked' = extract_run(f).invoked
        /\ noSearch
        /\ UNCHANGED <<collection_exists, points, uuids, added, expected>>

InitExtract == ChunkerIdle /\ IndexIdle /\ BatchIdle /\ ChatIdle

NextExtract == Extract /\ UNCHANGED <<callerVars, chunkerVars, batchVars, chatVars>>

SpecExtract == InitExtract /\ [][NextExtract]_vars

-----------------------------------------------------------------------------
(* ResearchAssistant.generate_response (research_assistant.py 187-229):    *)
(* the Orchestrator on a question.                                         *)

MaxCalls == 2

\* line 193: search_similar(query, limit=5)
SearchLimit == 5

\* vector_database.py line 198: the default score_threshold, 0.0
DefaultScoreThreshold == 0

\* "\n\n".join(texts)
RECURSIVE JoinBlankLines(_)
JoinBlankLines(texts) ==
    IF texts = <<>> THEN <<>>
    ELSE IF Len(texts) = 1 THEN texts[1]
    ELSE texts[1] \o <<"\n", "\n">> \o JoinBlankLines(Tail(texts))

\* lines 196-197: the context block
BuildContext(search_results) ==
    IF search_results = <<>>
    THEN <<"No", " ", "relevant", " ", "context", " ", "found.">>
    ELSE JoinBlankLines([k \in 1..Len(search_results) |-> search_results[k].text])

\* lines 200-204
SystemPrompt(context) ==
    <<"You are an AI research assistant.", "\n", "Context:", "\n">> \o context

\* line 206
UserPrompt(query) == <<"Question:", " ">> \o query

\* line 229: the answer substitute
ResponseError(msg) ==
    <<"[x]", " ", "Error", " ", "generating", " ", "response:", " ", msg>>

\* the turns of a history, written into a prompt
RECURSIVE TurnsText(_)
TurnsText(turns) ==
    IF turns = <<>> THEN <<>>
    ELSE <<"\n", "Q:">> \o Head(turns).query \o <<"\n", "A:">> \o Head(turns).answer
         \o TurnsText(Tail(turns))

\* a prompt that quotes the earlier turns
BuildPromptWithHistory(query, history, stored, search_results) ==
    [system |-> SystemPrompt(BuildContext(search_results)) \o TurnsText(stored)
                    \o TurnsText(history),
     user   |-> UserPrompt(query)]

\* lines 196-214: the two messages of the request, for the query, the
\* argument history, self.conversation_history and the search results
BuildPrompt(query, history, stored, search_results) ==
    [system |-> SystemPrompt(BuildContext(search_results)),
     user   |-> UserPrompt(query)]

\* what the language model does with a request: it answers with a text, it
\* raises, or it answers with no text content (message.content is None)
Replies ==
    {[kind |-> "ok",         content |-> <<" ", "yes", "\n">>],
     [kind |-> "ok",         content |-> <<"no">>],
     [kind |-> "raises",     content |-> <<>>],
     [kind |-> "no_content", content |-> <<>>]}

\* lines 209-229: what the call returns for the model's reply
Answer(reply) ==
    CASE reply.kind = "ok"     -> Strip(reply.content)
      [] reply.kind = "raises" -> ResponseError("connection error")
      [] OTHER -> ResponseError("'NoneType' object has no attribute 'strip'")

\* ResearchAssistant.generate_response (lines 187-229); the argument history
\* is not read
generate_response(query, history, outcome, reply) ==
    /\ call' = [op |-> "search", query |-> query, limit |-> SearchLimit,
                score_threshold |-> DefaultScoreThreshold,
                filter_conditions |-> <<>>]
    /\ search_similar(query, SearchLimit, DefaultScoreThreshold, <<>>,
                      outcome # "embed_raises", outcome # "store_raises")
    /\ prompt' = BuildPrompt(query, history, conversation_history, ret')
    /\ answer' = Answer(reply)
    /\ conversation_history' =
          IF reply.kind = "ok"
          THEN Append(conversation_history,
                      [query |-> query, answer |-> Strip(reply.content)])
          ELSE conversation_history

\* a question, with a history argument, and what the collaborators do on it
AskOf(queries) ==
    \E query \in queries, history \in {<<>>, conversation_history},
       outcome \in {"ok", "store_raises"}, reply \in Replies :
        /\ Len(asked) < MaxCalls
        /\ generate_response(query, history, outcome, reply)
        /\ asked' = Append(asked,
              [query    |-> query,
               outcome  |-> outcome,
               reply    |-> reply,
               returned |-> answer',
               before   |-> conversation_history,
               after    |-> conversation_history'])
        /\ UNCHANGED twin
        /\ UNCHANGED <<collection_exists, points, uuids, added, expected>>

Ask == AskOf(Queries)

\* a document indexed before or between the questions
Ingest ==
    \E t \in IndexTexts :
        /\ uuids < MaxDocuments
        /\ call' = [op |-> "add", text |-> t,
                    metadata |-> [filename |-> "notes.txt", file_type |-> ".txt"],
                    outcome |-> "ok"]
        /\ add_document(t, [filename |-> "notes.txt", file_type |-> ".txt"],
                        TRUE, TRUE)
        /\ noSearch
        /\ UNCHANGED collection_exists

InitChat == ChunkerIdle /\ IndexIdle /\ BatchIdle /\ ChatIdle

NextChat ==
    \/ Ask /\ UNCHANGED <<callerVars, chunkerVars, batchVars>>
    \/ Ingest /\ UNCHANGED <<callerVars, chunkerVars, batchVars, chatVars>>

\* questions asked of a store that documents are added to
SpecChat == InitChat /\ [][NextChat]_vars

\* lines 209-223: the history of the second assistant after the model's reply
TwinHistory(query, reply) ==
    IF reply.kind = "ok"
    THEN Append(twin.conversation_history,
                [query |-> query, answer |-> Strip(reply.content)])
    ELSE twin.conversation_history

\* the replies of the language model to the second assistant
TwinReplies == {r \in Replies : r.content \in {<<>>, <<"no">>} /\ r.kind # "no_content"}

\* the same question put to both assistants, on the same store and with the
\* same answer of the Index; the language model replies to each on its own, the
\* first is handed no history argument and the second its own history
AskBoth ==
    \E query \in Queries, outcome \in {"ok", "store_raises"},
       reply \in Replies, twin_reply \in TwinReplies,
       history \in {<<>>},
       twin_history \in {twin.conversation_history} :
        /\ Len(conversation_history) < MaxCalls
        /\ Len(twin.conversation_history) < MaxCalls
        /\ generate_response(query, history, outcome, reply)
        /\ twin' = [conversation_history |-> TwinHistory(query, twin_reply),
                    history |-> twin_history,
                    prompt  |->
                        BuildPrompt(query, twin_history, twin.conversation_history,
                            FormatResults(search_hits(query, SearchLimit,
                                DefaultScoreThreshold, <<>>,
                                outcome # "embed_raises",
                                outcome # "store_raises")))]
        /\ UNCHANGED asked
        /\ UNCHANGED <<collection_exists, points, uuids, added, expected>>

NextTwin ==
    \/ AskBoth /\ UNCHANGED <<callerVars, chunkerVars, batchVars>>
    \/ Ingest /\ UNCHANGED <<callerVars, chunkerVars, batchVars, chatVars>>

\* two assistants with the same store and the same questions, whose
\* histories differ
SpecTwin == InitChat /\ [][NextTwin]_vars

-----------------------------------------------------------------------------
(* Every public operation in one specification: a session of calls on the  *)
(* extractor, the index and the assistant, or one batch of uploads.        *)

MaxOpsDocuments == 1
MaxOpsFiles == 1

\* a call may start: no batch is running, and the session has neither asked
\* its question nor been an extraction
Standalone == pc_batch = "idle" /\ asked = <<>> /\ call.op # "extract"

InitOps == InitIndex \/ (InitBatch /\ Len(files) <= MaxOpsFiles)

NextOps ==
    \/ Standalone /\ Extract /\ UNCHANGED <<callerVars, chunkerVars, batchVars, chatVars>>
    \/ Standalone /\ uuids < MaxOpsDocuments /\ Add
         /\ UNCHANGED <<callerVars, chunkerVars, batchVars, chatVars>>
    \/ Standalone /\ Search /\ UNCHANGED <<callerVars, chunkerVars, batchVars, chatVars>>
    \/ Standalone /\ Stats /\ UNCHANGED <<callerVars, chunkerVars, batchVars, chatVars>>
    \/ Standalone /\ Delete /\ UNCHANGED <<callerVars, chunkerVars, batchVars, chatVars>>
    \/ Standalone /\ Clear /\ UNCHANGED <<callerVars, chunkerVars, batchVars, chatVars>>
    \/ Standalone /\ Ask /\ UNCHANGED <<callerVars, chunkerVars, batchVars>>
    \/ BatchEnter /\ UNCHANGED <<callerVars, chunkerVars, chatVars>>
    \/ BatchNoFiles /\ UNCHANGED <<callerVars, chunkerVars, chatVars>>
    \/ RejectFile /\ UNCHANGED <<callerVars, chunkerVars, chatVars>>
    \/ ProcessSingle /\ UNCHANGED <<callerVars, chunkerVars, chatVars>>
    \/ BatchReturn /\ UNCHANGED <<callerVars, chunkerVars, chatVars>>

SpecOps == InitOps /\ [][NextOps]_vars


-----------------------------------------------------------------------------
(* Properties of the Index.                                                *)

\* the values of document_id carried by the stored payloads
StoredDocumentIds == {points[k].payload.document_id : k \in 1..Len(points)}

RecordsOf(d) == SelectSeq(points, LAMBDA p : p.payload.document_id = d)

\* C1: for every document id present in the store the chunk ordinals of its
\* records are exactly 0..n-1, each once, where n is the chunk_count of each
\* of these records and the chunks_added that the add of the document returned.
C1_ContiguousOrdinals ==
    \A d \in StoredDocumentIds :
        LET recs == RecordsOf(d)
            n    == Len(recs)
        IN  /\ \A j \in 0..(n - 1) :
                  Cardinality({k \in 1..n : recs[k].payload.chunk_id = j}) = 1
            /\ \A k \in 1..n : recs[k].payload.chunk_count = n
            /\ d \in DOMAIN added
            /\ added[d] = n

\* the documents (by the id their add returned) whose points are expected
ExpectedOwners == {expected[k].id[1] : k \in 1..Len(expected)}

\* C2: once delete(A) has returned true no stored record carries A's id or
\* belongs to A and every record of every other document is stored unchanged;
\* stats() counts the remaining documents' chunks only and no search returns
\* a chunk of A.
C2_DeleteIsolates ==
    (call.op = "delete" /\ ret = TRUE) =>
        /\ call.document_id \notin StoredDocumentIds
        /\ OwnedBy(points, call.document_id) = <<>>
        /\ points = expected
        /\ get_document_stats(TRUE).total_chunks = Len(expected)
        /\ get_document_stats(TRUE).total_documents = Cardinality(ExpectedOwners)
        /\ \A q \in Queries, th \in Thresholds :
              LET hits == ClientSearch(points, encode(q), Len(points), <<>>, th)
              IN  \A k \in 1..Len(hits) : hits[k].id[1] # call.document_id

\* C3: a search returns at most limit results, each with a score of at least
\* score_threshold, in non-increasing score order, and no stored chunk that
\* passes the filter and the threshold and was left out scores higher than a
\* returned one.
C3_SearchTopK ==
    call.op = "search" =>
        LET q           == encode(call.query)
            Eligible(p) == /\ MatchesFilter(p, call.filter_conditions)
                           /\ Cosine(q, p.vector) >= call.score_threshold
            returned    == {search_result[k].id : k \in 1..Len(search_result)}
        IN  /\ Len(ret) = Len(search_result)
            /\ Len(ret) <= call.limit
            /\ \A k \in 1..Len(ret) : ret[k].score >= call.score_threshold
            /\ \A k \in 1..(Len(ret) - 1) : ret[k].score >= ret[k + 1].score
            /\ \A j \in 1..Len(points) :
                  (points[j].id \notin returned /\ Eligible(points[j]))
                     => \A k \in 1..Len(ret) :
                           Cosine(q, points[j].vector) <= ret[k].score

\* a search with a threshold above 0 that returned limit results, left out a
\* chunk for the limit and another one for the threshold
C3_Witness ==
    /\ call.op = "search"
    /\ call.limit >= 1
    /\ call.score_threshold > 0
    /\ Len(ret) = call.limit
    /\ \E j \in 1..Len(points) :
          /\ \A k \in 1..Len(search_result) : search_result[k].id # points[j].id
          /\ Cosine(encode(call.query), points[j].vector) >= call.score_threshold
    /\ \E j \in 1..Len(points) :
          Cosine(encode(call.query), points[j].vector) < call.score_threshold

-----------------------------------------------------------------------------
(* Properties of the Chunker.                                              *)

ChunkCallEnded == pc_chunk \in {"returned", "raised"}

\* C4: for every text and every chunk_size and overlap, overlap >= chunk_size
\* included, a call of chunk_text ends (it returns a list or raises the
\* ValueError that add_document turns into a failure result): the loop body
\* runs at most once per word and the call reaches its end.
C4_ChunkerTerminates ==
    /\ [](pc_chunk = "loop" => iterations <= Len(words))
    /\ <>ChunkCallEnded

\* a call with a zero stride on a text longer than one chunk has ended
C4_Witness ==
    /\ ChunkCallEnded
    /\ chunk_size >= 1
    /\ overlap >= chunk_size
    /\ Len(Split(text)) > chunk_size

\* the words of a chunk without its first n words
DropWords(ws, n) == IF n >= Len(ws) THEN <<>> ELSE SubSeq(ws, n + 1, Len(ws))

\* the words of the first chunk, then those of each later chunk without its
\* first ov words
RECURSIVE Reassemble(_, _, _)
Reassemble(cs, ov, k) ==
    IF k > Len(cs) THEN <<>>
    ELSE (IF k = 1 THEN Split(cs[k]) ELSE DropWords(Split(cs[k]), ov))
         \o Reassemble(cs, ov, k + 1)

\* C5: for 0 <= overlap < chunk_size the chunks, with the overlap of every
\* later chunk removed, give back the word sequence of the text.
C5_ChunkCoverage ==
    (pc_chunk = "returned" /\ 0 <= overlap /\ overlap < chunk_size)
        => Reassemble(chunks, overlap, 1) = Split(text)

\* a call that produced three overlapping chunks
C5_Witness ==
    /\ pc_chunk = "returned"
    /\ 0 < overlap /\ overlap < chunk_size
    /\ Len(chunks) >= 3
    /\ Reassemble(chunks, overlap, 1) = Split(text)

\* C6: a text of at least one and at most chunk_size words, with
\* overlap < chunk_size, is returned as exactly one chunk, the whole text.
C6_SingleChunk ==
    (/\ pc_chunk = "returned"
     /\ Len(Split(text)) >= 1
     /\ Len(Split(text)) <= chunk_size
     /\ overlap < chunk_size)
        => chunks = <<text>>

\* a text of exactly chunk_size words, padded with whitespace, was chunked
C6_Witness ==
    /\ pc_chunk = "returned"
    /\ Len(Split(text)) = chunk_size
    /\ chunk_size >= 2
    /\ overlap < chunk_size
    /\ text # Strip(text)
    /\ chunks = <<text>>

-----------------------------------------------------------------------------
(* Properties of process_documents.                                        *)

Last(sq) == sq[Len(sq)]

BatchReturned == pc_batch = "returned" /\ files # <<>>

\* the files of the batch whose chunks the Index holds
IndexedFiles ==
    {k \in 1..Len(file_doc) :
        file_doc[k] # 0 /\ OwnedBy(points, file_doc[k]) # <<>>}

\* C7: a batch of N >= 1 files returns one status line per file, in upload
\* order, followed by one summary, whatever subset of the files fails; the
\* line of each file is the line that file produces on its own, whatever
\* happened to the files before it.
C7_BatchIsolatesFailures ==
    /\ pc_batch = "loop" => Len(results) = file_idx /\ file_idx <= Len(files)
    /\ BatchReturned =>
          /\ Len(results) = Len(files)
          /\ \A k \in 1..Len(files) :
                /\ Contains(results[k], Quoted(files[k].name))
                /\ results[k] = StatusLine(files[k], config, outcomes[k])
                /\ ~Contains(results[k], <<"\n">>)
          /\ \E n \in 0..Len(files) :
                output = JoinLines(results) \o Summary(n, Len(files))

C7_Witness ==
    /\ BatchReturned
    /\ Len(files) = 3
    /\ ~Readable(files[1])
    /\ Last(stages[2]) = "failed" /\ outcomes[2] = "store_raises" /\ file_doc[2] # 0
    /\ Last(stages[3]) = "indexed"

\* C8: the success count of the summary is the number of files of the batch
\* whose chunks were added to the Index, for every choice of filenames, and
\* every other file is reported as failed.
C8_SummaryCountsIndexed ==
    BatchReturned =>
        /\ successful_uploads = Cardinality(IndexedFiles)
        /\ output = JoinLines(results) \o Summary(Cardinality(IndexedFiles), Len(files))
        /\ \A k \in 1..Len(files) :
              (k \in IndexedFiles) <=> (results[k][1] = "[ok]")

\* the paths of the stage machine: a prefix of the stage order that ends in
\* indexed, or is cut short by failed
StagePaths ==
    {<<"received", "failed">>,
     <<"received", "validated", "failed">>,
     <<"received", "validated", "extracted", "failed">>,
     <<"received", "validated", "extracted", "chunked+embedded", "failed">>,
     <<"received", "validated", "extracted", "chunked+embedded", "indexed">>}

\* C9: every upload goes through received, validated, extracted,
\* chunked+embedded, indexed in this order, leaves a stage only for the next
\* one or for failed, and ends in indexed or in failed; the store holds records
\* of the document exactly if it ended in indexed.
C9_StageMachine ==
    /\ Len(stages) = Len(results)
    /\ Len(file_doc) = Len(results)
    /\ \A k \in 1..Len(stages) :
          /\ stages[k] \in StagePaths
          /\ (k \in IndexedFiles) <=> (Last(stages[k]) = "indexed")
    /\ BatchReturned => Len(stages) = Len(files)

C9_Witness ==
    /\ BatchReturned
    /\ \E k \in 1..Len(stages) : stages[k] = StagesTo(4, FALSE)
    /\ \E k \in 1..Len(stages) : stages[k] = StagesTo(2, FALSE)
    /\ \E k \in 1..Len(stages) : Last(stages[k]) = "indexed" /\ Len(OwnedBy(points, file_doc[k])) > 1

-----------------------------------------------------------------------------
(* Properties of generate_response.                                        *)

\* the search step of a call failed: a collaborator raised in search_similar
SearchFailed(c) == ~IsBlank(c.query) /\ c.outcome # "ok"

\* the language-model step of a call failed
ModelFailed(c) == c.reply.kind # "ok"

\* the turns of the calls whose language-model request succeeded
RECURSIVE TurnsOf(_)
TurnsOf(cs) ==
    IF cs = <<>> THEN <<>>
    ELSE (IF ModelFailed(Head(cs)) THEN <<>>
          ELSE <<[query |-> Head(cs).query, answer |-> Strip(Head(cs).reply.content)]>>)
         \o TurnsOf(Tail(cs))

\* C10: the history is the sequence of (query, answer) pairs of the calls
\* whose language-model request succeeded, in call order; a successful call
\* appends one turn and returns that answer; a call whose search or
\* language-model step fails returns an error text and leaves the history
\* unchanged.
C10_HistoryOfSuccessfulCalls ==
    /\ conversation_history = TurnsOf(asked)
    /\ \A k \in 1..Len(asked) :
          LET c == asked[k]
          IN  IF SearchFailed(c) \/ ModelFailed(c)
              THEN /\ c.returned[1] = "[x]"
                   /\ c.after = c.before
              ELSE /\ c.returned = Strip(c.reply.content)
                   /\ c.after = Append(c.before,
                                       [query |-> c.query, answer |-> c.returned])

-----------------------------------------------------------------------------
(* Properties of the Index on failure.                                     *)

-----------------------------------------------------------------------------
(* Properties of extract_text.                                             *)

Extracted == call.op = "extract"

\* the parsers and format-specific extractors, as they appear in invoked
Strategies ==
    {"_extract_pdf_text", "_extract_docx_text", "_extract_txt_text", "header",
     "PyPDF2", "pypdf", "Document"} \cup Range(Encodings)

\* position of the first occurrence of x in sq, 0 for none
FirstAt(sq, x) ==
    IF x \in Range(sq) THEN CHOOSE k \in 1..Len(sq) :
                                sq[k] = x /\ \A j \in 1..(k - 1) : sq[j] # x
    ELSE 0

\* the suffixes extract accepts, in any case of the letters
Recognized(name) ==
    name # <<>> /\ Lower(Last(name)) \in {".pdf", ".docx", ".txt"}

\* C14: an unrecognized extension, or a size above the ceiling, gives
\* success = false with an error and no text, before any format-specific
\* strategy is invoked; the type check precedes the size check.
C14_ValidationFirst ==
    Extracted =>
        /\ (~Recognized(call.file.name) \/ call.file.size > MaxFileSizeMb * 1024 * 1024) =>
              /\ ~ret.success
              /\ ret.error # <<>>
              /\ ret.text = <<>>
              /\ Range(invoked) \cap Strategies = {}
        /\ ~Recognized(call.file.name) => "validate_file_size" \notin Range(invoked)
        /\ "validate_file_size" \in Range(invoked) =>
              /\ FirstAt(invoked, "validate_file_type") = 1
              /\ FirstAt(invoked, "validate_file_size") = 2

C14_Witness ==
    /\ Extracted
    /\ call.file.size > MaxFileSizeMb * 1024 * 1024
    /\ Suffix(call.file.name) = ".pdf"
    /\ HeaderValid(call.file.header)
    /\ ~call.file.primary.raises /\ Len(call.file.primary.pages) > 0
    /\ ~ret.success

ZeroByte(suffix) == Extracted /\ Suffix(call.file.name) = suffix /\ call.file.size = 0

\* C15: a zero-byte .txt file extracts with success = true and empty text.
C15_EmptyTxtSucceeds ==
    ZeroByte(".txt") => ret.success /\ ret.text = <<>>

\* the pages a library finds in a file, none for a library that raises
PagesOf(reader) == IF reader.raises THEN {} ELSE Range(reader.pages)

\* a file of some bytes whose content is whitespace and nothing else: a PDF
\* whose pages give whitespace to every library that reads them, a Word
\* document of blank paragraphs and no table, a text file that decodes to
\* whitespace
WhitespaceOnly(f) ==
    /\ f.size > 0
    /\ CASE Suffix(f.name) = ".pdf" ->
              /\ HeaderValid(f.header)
              /\ \E pg \in PagesOf(f.primary) \cup PagesOf(f.secondary) : ~pg.raises
              /\ \A pg \in PagesOf(f.primary) \cup PagesOf(f.secondary) :
                    ~pg.raises => IsBlank(pg.text)
         [] Suffix(f.name) = ".docx" ->
              /\ ~f.docx.raises
              /\ f.docx.tables = <<>>
              /\ f.docx.paragraphs # <<>>
              /\ \A k \in 1..Len(f.docx.paragraphs) : IsBlank(f.docx.paragraphs[k])
         [] Suffix(f.name) = ".txt" ->
              /\ \E e \in Range(Encodings) : f.decodes[e].error = ""
              /\ \A e \in Range(Encodings) :
                    f.decodes[e].error = "" =>
                        f.decodes[e].text # <<>> /\ IsBlank(f.decodes[e].text)
         [] OTHER -> FALSE

\* C16: a zero-byte .pdf, a zero-byte .docx, and a non-empty file of any of
\* the three formats whose text is whitespace only, all give success = false.
C16_NothingToExtractFails ==
    Extracted =>
        /\ (ZeroByte(".pdf") \/ ZeroByte(".docx")) => ~ret.success
        /\ WhitespaceOnly(call.file) => ~ret.success

C16_Witness ==
    /\ Extracted
    /\ Suffix(call.file.name) = ".pdf"
    /\ WhitespaceOnly(call.file)
    /\ call.file.size <= MaxSizeBytes
    /\ invoked[Len(invoked)] = "pypdf"
    /\ ~ret.success

Libraries == {"PyPDF2", "pypdf"}

\* C17: for a .pdf the five-byte header check comes before any parsing: a
\* file that does not begin with %PDF- fails, with the header error when the
\* check is reached, and neither parsing library is invoked on it.
C17_HeaderBeforeParsing ==
    (Extracted /\ Suffix(call.file.name) = ".pdf") =>
        /\ \A lib \in Libraries :
              lib \in Range(invoked) =>
                  /\ FirstAt(invoked, "header") > 0
                  /\ FirstAt(invoked, "header") < FirstAt(invoked, lib)
        /\ call.file.header # PdfMagic =>
              /\ ~ret.success
              /\ Range(invoked) \cap Libraries = {}
              /\ "header" \in Range(invoked) =>
                    ret.error = <<"File", "is", "not", "a", "valid", "PDF",
                                  "(missing", "PDF", "header)">>

C17_Witness ==
    /\ Extracted
    /\ Suffix(call.file.name) = ".pdf"
    /\ call.file.header = NearPdf
    /\ ~call.file.primary.raises /\ Len(call.file.primary.pages) > 0
    /\ invoked[Len(invoked)] = "header"
    /\ ~ret.success

\* C18: a text file written in any of the five encodings is extracted as its
\* content without outer whitespace, with encoding_used the encoding it was
\* written in.
C18_EncodingRoundTrip ==
    (Extracted /\ call.file.written # None) =>
        /\ ret.success
        /\ ret.text = Strip(call.file.written.text)
        /\ ret.metadata.encoding = call.file.written.encoding

\* a Word document without a non-blank paragraph and without a non-blank
\* table cell
NoDocxText(d) ==
    /\ ~d.raises
    /\ \A k \in 1..Len(d.paragraphs) : IsBlank(d.paragraphs[k])
    /\ \A t \in 1..Len(d.tables) :
          \A r \in 1..Len(d.tables[t]) :
              \A c \in 1..Len(d.tables[t][r]) : IsBlank(d.tables[t][r][c])

\* C19: a Word document with no non-empty paragraph and no non-empty table
\* cell fails to extract, however many tables it has, tables of empty rows
\* included.
C19_EmptyWordDocumentFails ==
    (Extracted /\ Suffix(call.file.name) = ".docx" /\ NoDocxText(call.file.docx)) =>
        ~ret.success

-----------------------------------------------------------------------------
(* Properties of clear_database.                                           *)

Cleared == call.op = "clear" /\ ret = TRUE

\* an add that nothing but the store can fail: text with a word in it, a
\* stride of at least one word, collaborators that answer
SoundAdd(c) ==
    /\ c.op = "add"
    /\ ~IsBlank(c.text)
    /\ Get(c.metadata, "chunk_overlap", DefaultChunkOverlap)
         < Get(c.metadata, "chunk_size", DefaultChunkSize)
    /\ c.outcome = "ok"

\* C20: after clear() returns true the collection exists and holds no record:
\* stats() reports 0 documents, 0 chunks and 0 vectors, every search returns
\* nothing, and a following add of non-empty text succeeds.
C20_ClearLeavesEmptyCollection ==
    /\ [](Cleared =>
            /\ collection_exists
            /\ points = <<>>
            /\ get_document_stats(TRUE).total_documents = 0
            /\ get_document_stats(TRUE).total_chunks = 0
            /\ get_document_stats(TRUE).total_vectors = 0
            /\ \A query \in Queries, limit \in 0..MaxLimit,
                  score_threshold \in Thresholds, filter_conditions \in Filters :
                  search_hits(query, limit, score_threshold, filter_conditions,
                              TRUE, TRUE) = <<>>)
    /\ [][(Cleared /\ SoundAdd(call')) =>
             /\ ret'.success
             /\ Len(points') = ret'.chunks_added
             /\ ret'.chunks_added > 0]_vars

\* a clear that returned true on a store that documents had been added to
C20_Witness ==
    /\ Cleared
    /\ DOMAIN added = {1, 2}
    /\ invoked = <<"delete_collection", "get_collection", "create_collection">>

-----------------------------------------------------------------------------
(* No exception leaves a public operation.                                 *)

\* a str of the model: a sequence of tokens
IsText(v) == DOMAIN v = 1..Cardinality(DOMAIN v)

ExtractStatus(r) ==
    /\ DOMAIN r = {"success", "text", "filename", "file_type", "error", "metadata"}
    /\ r.success \in BOOLEAN
    /\ ~r.success => r.error # <<>> /\ r.text = <<>>

AddStatus(r) ==
    /\ "success" \in DOMAIN r
    /\ r.success \in BOOLEAN
    /\ IF r.success
       THEN DOMAIN r = {"success", "chunks_added", "document_id", "total_characters"}
       ELSE DOMAIN r = {"success", "error", "chunks_added"}

StatsStatus(r) ==
    DOMAIN r = {"total_documents", "total_chunks", "total_vectors", "documents"}

-----------------------------------------------------------------------------
(* get_document_stats on collections of any size. The collection is kept   *)
(* at db_path, so a VectorDatabase may be constructed on one that an       *)
(* earlier process filled (lines 62-68: "already exists").                 *)

\* the records add_document stores for a document of n one-word chunks
\* (a text of n words added with chunk_size 1 and chunk_overlap 0)
StoredDocument(n, doc) ==
    MakePoints([k \in 1..n |-> <<"a">>], doc,
               [filename |-> "notes.txt", file_type |-> ".txt",
                extra_metadata |-> <<>>, chunk_size |-> 1, chunk_overlap |-> 0])

\* numbers of records found in the collection at construction: none, one,
\* and just below, at and just above what one scroll of line 277 returns
StoreSizes == {0, 1, ScrollLimit - 1, ScrollLimit, ScrollLimit + 1}

InitStats ==
    /\ callers = <<>>
    /\ ChunkerIdle /\ BatchIdle /\ ChatIdle
    /\ collection_exists = TRUE
    /\ \E n \in StoreSizes :
          /\ points = StoredDocument(n, 1)
          /\ expected = StoredDocument(n, 1)
          /\ uuids = IF n = 0 THEN 0 ELSE 1
          /\ added = IF n = 0 THEN <<>> ELSE <<n>>
    /\ call = [op |-> "init"]
    /\ ret = None
    /\ search_result = <<>>
    /\ invoked = <<>>

NextStats ==
    \/ Add /\ UNCHANGED <<callerVars, chunkerVars, batchVars, chatVars>>
    \/ Stats /\ UNCHANGED <<callerVars, chunkerVars, batchVars, chatVars>>
    \/ Delete /\ UNCHANGED <<callerVars, chunkerVars, batchVars, chatVars>>
    \/ Clear /\ UNCHANGED <<callerVars, chunkerVars, batchVars, chatVars>>

SpecStats == InitStats /\ [][NextStats]_vars

\* the sum of the chunk counts of a per-document breakdown
RECURSIVE SumChunks(_)
SumChunks(docs) ==
    IF docs = {} THEN 0
    ELSE LET d == CHOOSE x \in docs : TRUE
         IN  d.chunks + SumChunks(docs \ {d})

\* C21: stats() returns total_chunks = total_vectors = the number of stored
\* records, total_documents = the number of distinct document ids among them,
\* and a per-document breakdown whose chunk counts sum to total_chunks, for
\* any number of stored records.
C21_StatsCountStoredRecords ==
    (call.op = "stats" /\ invoked = <<"get_collection", "scroll">>) =>
        /\ ret.total_chunks = Len(points)
        /\ ret.total_vectors = Len(points)
        /\ ret.total_documents = Cardinality(StoredDocumentIds)
        /\ SumChunks(ret.documents) = ret.total_chunks

-----------------------------------------------------------------------------
(* Blank queries.                                                          *)

\* searches and one question, blank ones among them, on a store that
\* documents are added to
NextQuery ==
    \/ Standalone /\ Add /\ UNCHANGED <<callerVars, chunkerVars, batchVars, chatVars>>
    \/ Standalone /\ SearchOf(AllQueries)
         /\ UNCHANGED <<callerVars, chunkerVars, batchVars, chatVars>>
    \/ Standalone /\ AskOf(AllQueries) /\ UNCHANGED <<callerVars, chunkerVars, batchVars>>

SpecQuery == InitIndex /\ [][NextQuery]_vars

\* C22: a search with an empty or whitespace-only query returns an empty
\* sequence without invoking the embedding provider and without querying the
\* vector store, whatever the store holds and whatever limit, threshold and
\* filter are given.
C22_BlankQuerySearchesNothing ==
    (call.op = "search" /\ IsBlank(call.query)) =>
        /\ ret = <<>>
        /\ search_result = <<>>
        /\ invoked = <<>>

C22_Witness ==
    /\ call.op = "search"
    /\ call.query = <<>>
    /\ call.limit = MaxLimit
    /\ call.filter_conditions = <<>>
    /\ Len(points) > 1
    /\ ret = <<>>

\* C23: an empty or whitespace-only question is refused by generate_response
\* before any expensive work: the embedding provider is not invoked and no
\* prompt is sent to the language model.
C23_BlankQuestionRejected ==
    (asked # <<>> /\ IsBlank(Last(asked).query)) =>
        /\ invoked = <<>>
        /\ prompt = None

-----------------------------------------------------------------------------
(* The windows of the chunker.                                             *)

Min(a, b) == IF a <= b THEN a ELSE b

\* the words at positions [k*s, min(k*s + size, n)) for every start k*s < n,
\* each window joined by single spaces
Windows(ws, size, s) ==
    [k \in 1..((Len(ws) + s - 1) \div s) |->
        Join(SubSeq(ws, (k - 1) * s + 1, Min((k - 1) * s + size, Len(ws))))]

\* C24: for a text of n > max_words words and 0 <= overlap_words < max_words
\* the chunker emits one chunk for every window start k*s < n, with
\* s = max_words - overlap_words, and the k-th chunk is the words at
\* positions [k*s, min(k*s + max_words, n)) joined by single spaces.
C24_OneChunkPerWindowStart ==
    (/\ pc_chunk = "returned"
     /\ Len(Split(text)) > chunk_size
     /\ 0 <= overlap /\ overlap < chunk_size)
        => chunks = Windows(Split(text), chunk_size, chunk_size - overlap)

------------------------------------------------------------------------------
(* The two PDF libraries.                                                   *)

\* the pages a library fetched: all of them, or those before the one whose
\* fetching raised
ReadPages(reader) ==
    IF reader.raises THEN <<>>
    ELSE IF BreaksAt(reader) = 0 THEN reader.pages
    ELSE SubSeq(reader.pages, 1, BreaksAt(reader) - 1)

\* the library produced non-whitespace text
Yields(reader) ==
    \E page \in Range(ReadPages(reader)) : ~page.raises /\ ~IsBlank(page.text)

\* the parsing of a PDF was reached
Parsed == Extracted /\ "PyPDF2" \in Range(invoked)

\* C25: the second library is tried exactly when the first produced no
\* non-whitespace text (it raised, or every page was blank); text of the first
\* library is returned with method PyPDF2, otherwise text of the second
\* library alone with method pypdf, and with neither the extraction fails
C25_FallbackOnlyWhenPrimaryYieldsNothing ==
    Parsed =>
        LET f == call.file
        IN  /\ ("pypdf" \in Range(invoked)) <=> ~Yields(f.primary)
            /\ Yields(f.primary) =>
                   /\ ret.success
                   /\ ret.text = Strip(PagesText(ReadPages(f.primary), 1))
                   /\ ret.metadata.method = "PyPDF2"
            /\ (~Yields(f.primary) /\ Yields(f.secondary)) =>
                   /\ ret.success
                   /\ ret.text = Strip(PagesText(ReadPages(f.secondary), 1))
                   /\ ret.metadata.method = "pypdf"
            /\ (~Yields(f.primary) /\ ~Yields(f.secondary)) => ~ret.success

\* C25 without the libraries that raise after they collected text: there the
\* four parts hold
C25_WholeReaders ==
    (Parsed /\ BreaksAt(call.file.primary) = 0 /\ BreaksAt(call.file.secondary) = 0)
        => C25_FallbackOnlyWhenPrimaryYieldsNothing

\* the library whose text a successful extraction returned
Chosen ==
    IF ret.metadata.method = "PyPDF2" THEN call.file.primary ELSE call.file.secondary

\* the numbers of the '--- Page N ---' markers of a text, in order
Markers(t) ==
    LET IsMarker(j) ==
            /\ j + 6 <= Len(t)
            /\ SubSeq(t, j, j + 3) = <<"---", " ", "Page", " ">>
            /\ SubSeq(t, j + 5, j + 6) = <<" ", "---">>
        at == SelectSeq([j \in 1..Len(t) |-> j], IsMarker)
    IN  [k \in 1..Len(at) |-> t[at[k] + 4]]

\* the 1-based positions of the pages that yielded text, in order
YieldingPages(pages) ==
    LET HasText(k) == ~pages[k].raises /\ ~IsBlank(pages[k].text)
    IN  SelectSeq([k \in 1..Len(pages) |-> k], HasText)

\* C26: a page that raises or yields only whitespace is skipped without
\* ending the extraction; the text has one '--- Page N ---' block for each
\* page that yielded text, in ascending order, N being the page's 1-based
\* position in the document
C26_OneBlockPerYieldingPage ==
    (Parsed /\ ret.success) =>
        LET yielding == YieldingPages(ReadPages(Chosen))
        IN  Markers(ret.text) = [k \in 1..Len(yielding) |-> ToString(yielding[k])]

\* a document of two pages whose first page raises: it is skipped and the
\* second is extracted as Page 2
C26_Witness ==
    /\ Parsed
    /\ ret.success
    /\ Len(Chosen.pages) = 2
    /\ Chosen.pages[1].raises
    /\ Markers(ret.text) = <<"2">>

------------------------------------------------------------------------------
(* The shape of an extraction result.                                       *)

\* the text has a first and a last character and neither is whitespace
Trimmed(t) == t # <<>> /\ ~IsSpace(t[1]) /\ ~IsSpace(t[Len(t)])

------------------------------------------------------------------------------
(* The configured number of retrieved chunks.                               *)

MaxTopK == 6
MaxStored == 7

\* config.py line 57: top_k_results, from TOP_K_RESULTS, "5" when unset
DefaultTopK == 5

\* the values TOP_K_RESULTS is set to
TopKs == 1..MaxTopK

\* a document of n one-word chunks, "b" and "a" in turn
WordChunks(n) == [k \in 1..n |-> IF k % 2 = 1 THEN <<"b">> ELSE <<"a">>]

\* an assistant constructed with a configuration, over a persisted collection
InitTopK ==
    /\ callers = <<>>
    /\ ChunkerIdle
    /\ ChatIdle
    /\ config \in {[top_k_results |-> K] : K \in TopKs}
    /\ files = <<>> /\ file_idx = 0 /\ results = <<>> /\ successful_uploads = 0
    /\ output = None /\ pc_batch = "idle" /\ stages = <<>> /\ file_doc = <<>>
    /\ outcomes = <<>>
    /\ collection_exists = TRUE
    /\ \E n \in 0..MaxStored :
          /\ points = MakePoints(WordChunks(n), 1,
                                 [filename |-> "notes.txt", file_type |-> ".txt",
                                  extra_metadata |-> <<>>, chunk_size |-> 1,
                                  chunk_overlap |-> 0])
          /\ expected = points
          /\ uuids = IF n = 0 THEN 0 ELSE 1
          /\ added = IF n = 0 THEN <<>> ELSE <<n>>
    /\ call = [op |-> "init"]
    /\ ret = None
    /\ search_result = <<>>
    /\ invoked = <<>>

NextTopK == Ask /\ UNCHANGED <<callerVars, chunkerVars, batchVars>>

\* questions to assistants of every configuration
SpecTopK == InitTopK /\ [][NextTopK]_vars

\* the texts of the first n stored chunks in the order of the search for the
\* query: by descending similarity, equal ones as stored
Nearest(query, n) ==
    LET ranking == ClientSearch(points, encode(query), Len(points), <<>>,
                                DefaultScoreThreshold)
    IN  [k \in 1..Len(Keep(ranking, n)) |-> ranking[k].payload.text]

\* C28: with top_k_results configured to K, generate_response asks the store
\* for exactly K chunks, and the context holds at most K chunk texts, in the
\* order of the search, separated by blank lines
C28_ConfiguredTopK ==
    (asked # <<>> /\ ~IsBlank(Last(asked).query) /\ Last(asked).outcome = "ok") =>
        LET K == config.top_k_results
        IN  /\ call.limit = K
            /\ Len(ret) <= K
            /\ prompt.system =
                   SystemPrompt(BuildContext([k \in 1..Len(Nearest(Last(asked).query, K)) |->
                                                 [text |-> Nearest(Last(asked).query, K)[k]]]))

\* C28 for the default of 5 only: there the context is as the claim has it
C28_DefaultTopK ==
    config.top_k_results = DefaultTopK => C28_ConfiguredTopK

------------------------------------------------------------------------------
(* What each operation leaves of the collection.                            *)

NextFrame ==
    \/ Standalone /\ Add /\ UNCHANGED <<callerVars, chunkerVars, batchVars, chatVars>>
    \/ Standalone /\ Search /\ UNCHANGED <<callerVars, chunkerVars, batchVars, chatVars>>
    \/ Standalone /\ Stats /\ UNCHANGED <<callerVars, chunkerVars, batchVars, chatVars>>
    \/ Standalone /\ Delete /\ UNCHANGED <<callerVars, chunkerVars, batchVars, chatVars>>
    \/ Standalone /\ Clear /\ UNCHANGED <<callerVars, chunkerVars, batchVars, chatVars>>
    \/ Standalone /\ Ask /\ UNCHANGED <<callerVars, chunkerVars, batchVars>>

\* the operations of the store and a question of the assistant over it
SpecFrame == InitIndex /\ [][NextFrame]_vars

\* the records of before that are no longer stored, and those stored now
\* that were not before
Removed == {p \in Range(points) : p \notin Range(points')}
Inserted == {p \in Range(points') : p \notin Range(points)}

\* the document whose add created the record
Owner(p) == p.id[1]

\* what a step does to the collection
FrameStep ==
    /\ call'.op \in {"search", "stats"} => points' = points
    /\ Removed # {} =>
          \/ call'.op = "clear"
          \/ /\ call'.op = "delete"
             /\ \A p \in Removed : Owner(p) = call'.document_id
    /\ Inserted # {} =>
          /\ call'.op = "add"
          /\ ret'.success
          /\ \A p \in Inserted : Owner(p) = ret'.document_id
          /\ \A p \in Range(points) : Owner(p) # ret'.document_id
    /\ call'.op = "add" =>
          /\ Len(points') >= Len(points)
          /\ SubSeq(points', 1, Len(points)) = points
    /\ SelectSeq(points, LAMBDA p : p \in Range(points'))
          = SelectSeq(points', LAMBDA p : p \in Range(points))

\* C29: a stored record never changes and leaves the collection only by the
\* delete of its own document or by a clear: search, stats and
\* generate_response leave the collection as it is, and a successful add
\* appends records of the new document only
C29_StoreFrame == [][FrameStep]_vars

\* no record stored under a document id that the caller's metadata supplied
OwnIdsOnly == \A p \in Range(points) : p.payload.document_id = Owner(p)

\* C29 on collections without such records: there every step keeps the frame
C29_OwnIdsFrame == [][OwnIdsOnly => FrameStep]_vars

------------------------------------------------------------------------------
(* Callers that share one VectorDatabase: add_document, delete_document and *)
(* clear_database hold no lock, so a caller's next call of the Qdrant       *)
(* client runs whenever the scheduler picks it.  Each client call           *)
(* (upsert, delete, delete_collection, get_collection, create_collection)  *)
(* is one step.                                                             *)

MaxCallers == 2

\* the document stored before the callers arrive, by an add that returned 1
EarlierDocument == 1

CallerMetadata ==
    [filename |-> "notes.txt", file_type |-> ".txt", chunk_size |-> 2,
     chunk_overlap |-> 1]

\* the calls a caller makes
CallerCalls ==
    {[op |-> "add", text |-> t, metadata |-> CallerMetadata] :
        t \in {<<"b", " ", "a", " ", "b">>, <<"a">>}}
    \cup {[op |-> "delete", document_id |-> d] : d \in {EarlierDocument}}
    \cup {[op |-> "clear"]}

EnterCall(c) == [call |-> c, pc |-> "called", fresh |-> <<>>, ret |-> None]

InitCallers ==
    /\ ChunkerIdle
    /\ BatchIdle
    /\ ChatIdle
    /\ \E n \in 1..MaxCallers :
          callers \in [1..n -> {EnterCall(c) : c \in CallerCalls}]
    /\ collection_exists = TRUE
    /\ points = MakePoints(chunk_text(<<"b", " ", "a", " ", "b">>, 2, 1).chunks,
                           EarlierDocument, CallerMetadata)
    /\ expected = points
    /\ uuids = EarlierDocument
    /\ added = <<Len(points)>>
    /\ call = [op |-> "init"]
    /\ ret = None
    /\ search_result = <<>>
    /\ invoked = <<>>

At(c, op, pc) == callers[c].call.op = op /\ callers[c].pc = pc

Goto(c, pc) == callers' = [callers EXCEPT ![c].pc = pc]

Returns(c, value) ==
    callers' = [callers EXCEPT ![c].pc = "returned", ![c].ret = value]

\* add_document lines 125-169: the chunks, their embeddings and the points,
\* under a new document id
AddPrepare(c) ==
    /\ At(c, "add", "called")
    /\ LET this    == callers[c].call
           chunked == chunk_text(this.text, this.metadata.chunk_size,
                                 this.metadata.chunk_overlap)
       IN  callers' = [callers EXCEPT
                          ![c].pc = "upsert",
                          ![c].fresh = MakePoints(chunked.chunks, uuids + 1,
                                                  this.metadata)]
    /\ uuids' = uuids + 1
    /\ UNCHANGED <<collection_exists, points>>

\* add_document lines 171-192: client.upsert, which raises when the
\* collection is not there
AddUpsert(c) ==
    /\ At(c, "add", "upsert")
    /\ IF collection_exists
       THEN /\ points' = points \o callers[c].fresh
            /\ Returns(c, [success          |-> TRUE,
                           chunks_added     |-> Len(callers[c].fresh),
                           document_id      |-> callers[c].fresh[1].id[1],
                           total_characters |-> Len(callers[c].call.text)])
       ELSE /\ points' = points
            /\ Returns(c, AddFailure("Collection not found"))
    /\ UNCHANGED <<collection_exists, uuids>>

\* delete_document lines 335-354: client.delete, which raises when the
\* collection is not there
DeleteCall(c) ==
    /\ At(c, "delete", "called")
    /\ IF collection_exists
       THEN /\ points' = ClientDelete(points, callers[c].call.document_id)
            /\ Returns(c, TRUE)
       ELSE /\ points' = points
            /\ Returns(c, FALSE)
    /\ UNCHANGED <<collection_exists, uuids>>

\* clear_database line 365: client.delete_collection
ClearDrop(c) ==
    /\ At(c, "clear", "called")
    /\ collection_exists' = FALSE
    /\ points' = <<>>
    /\ Goto(c, "get_collection")
    /\ UNCHANGED uuids

\* _initialize_collection lines 64-67: client.get_collection
ClearGet(c) ==
    /\ At(c, "clear", "get_collection")
    /\ IF collection_exists THEN Returns(c, TRUE) ELSE Goto(c, "create_collection")
    /\ UNCHANGED <<collection_exists, points, uuids>>

\* _initialize_collection lines 68-77: client.create_collection, which raises
\* when the collection is there already
ClearCreate(c) ==
    /\ At(c, "clear", "create_collection")
    /\ IF collection_exists
       THEN /\ Returns(c, FALSE)
            /\ UNCHANGED <<collection_exists, points>>
       ELSE /\ collection_exists' = TRUE
            /\ points' = <<>>
            /\ Returns(c, TRUE)
    /\ UNCHANGED uuids

callerFrame ==
    UNCHANGED <<chunkerVars, batchVars, chatVars, call, ret, search_result,
                added, expected, invoked>>

NextCallers ==
    \/ \E c \in DOMAIN callers : AddPrepare(c) /\ callerFrame
    \/ \E c \in DOMAIN callers : AddUpsert(c) /\ callerFrame
    \/ \E c \in DOMAIN callers : DeleteCall(c) /\ callerFrame
    \/ \E c \in DOMAIN callers : ClearDrop(c) /\ callerFrame
    \/ \E c \in DOMAIN callers : ClearGet(c) /\ callerFrame
    \/ \E c \in DOMAIN callers : ClearCreate(c) /\ callerFrame

SpecCallers == InitCallers /\ [][NextCallers]_vars

\* the caller is between the first and the last client call of its method
Busy(c) == callers[c].pc \notin {"called", "returned"}

AllReturned == \A c \in DOMAIN callers : callers[c].pc = "returned"

\* the callers whose add returned a success
Adders ==
    {c \in DOMAIN callers :
        /\ callers[c].call.op = "add"
        /\ callers[c].pc = "returned"
        /\ callers[c].ret.success}

\* whose records the collection holds: 0 for the earlier document
Holders ==
    {c \in Adders : OwnedBy(points, callers[c].ret.document_id) # <<>>}
    \cup (IF OwnedBy(points, EarlierDocument) # <<>> THEN {0} ELSE {})

\* the same after the calls of the callers run one after the other in the
\* given order
RECURSIVE SerialHolders(_, _)
SerialHolders(order, held) ==
    IF order = <<>> THEN held
    ELSE LET this == callers[Head(order)].call
         IN  SerialHolders(Tail(order),
                 CASE this.op = "add"    -> held \cup {Head(order)}
                   [] this.op = "delete" -> held \ {0}
                   [] OTHER              -> {})

Orders ==
    {order \in [DOMAIN callers -> DOMAIN callers] :
        \A c, d \in DOMAIN callers : c # d => order[c] # order[d]}

\* once all have returned the collection is there, and it holds what some
\* serial order of the calls leaves
SerialStore ==
    AllReturned =>
        /\ collection_exists
        /\ \E order \in Orders : Holders = SerialHolders(order, {0})

\* a successful add has all of its records stored, or none
AllOrNothing ==
    \A c \in Adders :
        Len(OwnedBy(points, callers[c].ret.document_id))
            \in {0, callers[c].ret.chunks_added}

\* a caller takes a step only while no other caller is inside its method
OneAtATime ==
    \A c \in DOMAIN callers :
        callers'[c].pc # callers[c].pc =>
            \A d \in DOMAIN callers \ {c} : ~Busy(d)

\* C27: add, delete and clear of concurrent callers are serialized: the
\* steps of two calls never interleave, so the collection ends as some serial
\* order of the calls leaves it, a successful add has all of its chunks
\* stored or none, and the collection exists once all calls have returned
C27_CallersSerialized ==
    /\ [][OneAtATime]_vars
    /\ [](SerialStore /\ AllOrNothing)

\* what holds of the collection although the steps interleave
C27_StoreAsSerial == SerialStore /\ AllOrNothing

\* every call returns what it returns when it runs alone: an add and a clear
\* succeed, a delete returns True
ReturnsAsAlone ==
    \A c \in DOMAIN callers :
        callers[c].pc = "returned" =>
            IF callers[c].call.op = "add" THEN callers[c].ret.success
            ELSE callers[c].ret = TRUE

====
